---- MODULE Spec2Model ----
(***************************************************************************)
(* A model of the cppthread library: the thread-safe FIFO (fifo.h), the    *)
(* item with predicate (item_with_predicate.cpp), the worker and the pool  *)
(* (worker.h, pool.h), the thread controller (thread.cpp), the mutex and   *)
(* its guard (mutex.cpp, guard.cpp).                                       *)
(*                                                                         *)
(* Every critical section protected by a cppthread::guard is one atomic    *)
(* step; a condition wait releases the mutex and is therefore the border   *)
(* between two steps.  A condition variable is the pair of sets            *)
(* (waiting, woken): signal() moves one waiting thread to woken,           *)
(* broadcast() moves them all, and a woken thread goes on once it owns     *)
(* the mutex again.                                                        *)
(***************************************************************************)
EXTENDS Integers, Sequences, FiniteSets, TLC

\* ---------------------------------------------------------------- bounds
NItems == 3
NClients == 2
NWorkers == 2
NJobs == 2
NCallers == 2
MaxBroadcasts == 2
MaxDepth == 2

Items == 1..NItems
Clients == {100 + c : c \in 1..NClients}
None == 0

\* the workers of a pool, each with its thread, and the items given to it
Workers == 1..NWorkers
Jobs == {i \in Items : i <= NJobs}

\* the threads that call start() and stop() on a thread object
Callers == {200 + c : c \in 1..NCallers}

\* the input and the output fifo of the workers
InFifo == 1
OutFifo == 2

\* std::exception_ptr(): no exception is kept
NoException == "none"

\* the runners; each worker of a pool is one
Runners == Workers

\* thread.h: the value of f_thread_id before pthread_create()
THREAD_UNDEFINED == -1

\* thread.h: the value of f_tid when the thread is not running
PID_UNDEFINED == -1

\* the timeout classes of fifo::pop_front: a negative number other than
\* -1, -1 (wait for ever), 0 (do not wait), a positive number of
\* microseconds
Usecs == {-2, -1, 0, 1}

VARIABLES
    itemType,        \* how validate_item<T> was resolved for T
    f_queue,         \* fifo::f_queue
    f_done,          \* fifo::f_done
    f_broadcast,     \* fifo::f_broadcast
    broadcasts,      \* history: the number of broadcast() calls of the fifo
    f_waiting,       \* threads suspended in the fifo's condition wait
    f_woken,         \* threads released by signal()/broadcast(), not yet running
    f_ready,         \* item_t::f_ready of the items with their own predicate
    f_dependencies,  \* item_with_predicate::f_dependencies
    f_processing,    \* item_with_predicate::f_processing
    held,            \* items the producer holds a strong reference to
    cl,              \* the client threads calling the fifo: position and locals
    f_workload,      \* worker::f_workload
    f_working,       \* worker::f_working
    out_queue,       \* f_queue of the output fifo (worker::f_out)
    ppc,             \* the owner of the pool: position and locals
    pushed,          \* history: the items the input fifo accepted
    worked,          \* history: the number of do_work() calls on each item
    arrived,         \* history: the number of times each item reached f_out
    refused,         \* history: the items do_work() returned false for
    f_running,       \* thread::f_running
    f_started,       \* thread::f_started
    f_stopping,      \* thread::f_stopping
    f_exception,     \* thread::f_exception
    f_tid,           \* thread::f_tid
    tpc,             \* the OS thread of each thread object: position
    events,          \* history: the runner functions called in each OS thread
    cr,              \* the threads calling start() and stop(): position and locals
    t_waiting,       \* threads suspended in the condition wait of thread::f_mutex
    t_woken,         \* threads released from that wait, not yet running
    f_thread_id,     \* thread::f_thread_id: the OS thread created last
    system_thread,   \* the thread object each OS thread was created with
    f_runner,        \* thread::f_runner, None for a thread not constructed
    f_thread,        \* runner::f_thread, None for a runner not attached
    validated,       \* history: the items valid_workload() returned true for
    icall,           \* the last call made on an item: what, on which, result
    f_reference_count, \* mutex::f_reference_count
    m_owner,         \* the thread which holds the pthread mutex, None if free
    m_level,         \* how many times the owner has locked the pthread mutex
    raw,             \* history: of each thread, the successful lock() and
                     \* try_lock() calls it made itself less its successful
                     \* unlock() calls
    mcall,           \* the last call of a thread on the mutex or on its guard
    g_alive,         \* of each thread: its guard is constructed
    g_mutex,         \* guard::f_mutex: TRUE for the mutex, FALSE for nullptr
    g_locked,        \* guard::f_locked
    g_done,          \* history: unlock(true) was called on the guard
    f_in,            \* worker::f_in of each worker: InFifo or None (nullptr)
    f_out,           \* worker::f_out of each worker: OutFifo or None (nullptr)
    mx,              \* of each thread: the mutexes its guard objects have locked
    lop              \* of each caller: the call on the thread object it is in,
                     \* the callback it passed and the calls of the callback

fifoVars == <<f_queue, f_done, f_broadcast, f_waiting, f_woken, broadcasts>>
itemVars == <<f_ready, f_dependencies, f_processing>>
workerVars == <<f_workload, f_working, out_queue>>
histVars == <<pushed, worked, arrived, refused>>
flagVars == <<f_running, f_started, f_stopping, f_exception, f_tid>>
poolVars == <<workerVars, ppc, histVars>>
callVars == <<cr, t_waiting, t_woken>>
threadVars == <<flagVars, tpc, events, callVars>>
osVars == <<f_thread_id, system_thread>>
attachVars == <<f_runner, f_thread>>
objVars == <<attachVars, osVars>>
mutexVars == <<f_reference_count, m_owner, m_level>>
guardVars == <<g_alive, g_mutex, g_locked>>
lockVars == <<mutexVars, raw, mcall, guardVars, g_done>>
ioVars == <<f_in, f_out>>
lkVars == <<mx, lop>>
soloVars == <<validated, icall, lockVars, ioVars, lkVars>>
vars == <<itemType, soloVars, objVars, fifoVars, itemVars, held, cl, poolVars,
          threadVars>>

\* ------------------------------------------------------------- sequences
Range(s) == {s[k] : k \in 1..Len(s)}

\* (mutant) the head is erased whatever the iterator
erase_front(q, k) == Tail(q)

\* std::deque::erase(it) with it at position k
erase(q, k) == SubSeq(q, 1, k - 1) \o SubSeq(q, k + 1, Len(q))

\* ---------------------------------------------------------------- items
\* The items some shared_ptr still points to: a weak_ptr to any other item
\* has expired.
\* (mutant) only the queue keeps an item alive
Live_queue == Range(f_queue) \ {None}

Live ==
    (held \cup Range(f_queue) \cup {cl[c].out : c \in Clients}
          \cup {f_workload[w] : w \in Workers} \cup Range(out_queue)) \ {None}

\* item_with_predicate::valid_workload(): the dependencies left once the
\* expired ones are erased
pruned(deps, i) == deps[i] \cap Live

\* (mutant) every item is accepted
validate_item_any(i, deps) == TRUE

\* fifo::validate_item<T>(): the four overloads, chosen by the type
validate_item(i, deps) ==
    CASE itemType = "plain" -> TRUE
      [] itemType = "own" -> f_ready[i]
      [] itemType = "iwp" -> pruned(deps, i) = {}

\* the effect of validate_item() on the item it is called on
validate_deps(i, deps) ==
    IF itemType = "iwp" THEN [deps EXCEPT ![i] = pruned(deps, i)] ELSE deps

validate_proc(i, deps, proc) ==
    IF itemType = "iwp" /\ pruned(deps, i) = {}
    THEN [proc EXCEPT ![i] = TRUE] ELSE proc

\* ----------------------------------------------------------------- fifo
\* The inner for() of pop_front: from position k, the position of the first
\* item validate_item() accepts (0 when the end is reached), with the state
\* the visited items are left in.
RECURSIVE scan(_, _, _)
scan(k, deps, proc) ==
    IF k > Len(f_queue)
    THEN [idx |-> 0, deps |-> deps, proc |-> proc]
    ELSE IF validate_item(f_queue[k], deps)
         THEN [idx |-> k,
               deps |-> validate_deps(f_queue[k], deps),
               proc |-> validate_proc(f_queue[k], deps, proc)]
         ELSE scan(k + 1, validate_deps(f_queue[k], deps), proc)

\* one more call of broadcast(), counted up to MaxBroadcasts
counted(n) == IF n < MaxBroadcasts THEN n + 1 ELSE n

\* the condition of the cleanup lambda of pop_front, on the queue q
cleanup(q) == f_done /\ ~f_broadcast /\ q = <<>>

\* (mutant) the signal wakes nobody
signal_lost == UNCHANGED <<f_waiting, f_woken>>

\* mutex::signal(): one of the waiting threads is released
signal ==
    IF f_waiting = {}
    THEN UNCHANGED <<f_waiting, f_woken>>
    ELSE \E p \in f_waiting :
            /\ f_waiting' = f_waiting \ {p}
            /\ f_woken' = f_woken \cup {p}

\* fifo::push_back(v) and its result
push_back_result == ~f_done

\* (mutant) the item is appended without looking at f_done
push_back_always(v) ==
    /\ f_queue' = Append(f_queue, v)
    /\ signal
    /\ UNCHANGED <<f_done, f_broadcast, broadcasts>>

push_back(v) ==
    /\ IF f_done
       THEN UNCHANGED <<f_queue, f_waiting, f_woken>>
       ELSE /\ f_queue' = Append(f_queue, v)
            /\ signal
    /\ UNCHANGED <<f_done, f_broadcast, broadcasts>>

\* One pass of the for(;;) of fifo::pop_front, run by thread p holding the
\* lock: the outcome is "true" (an item is returned), "false", or "wait"
\* (p is suspended in wait() or timed_wait()).
pop_outcome(usecs) ==
    LET s == scan(1, f_dependencies, f_processing) IN
    IF s.idx > 0 THEN "true"
    ELSE IF f_done THEN "false"
    ELSE IF usecs = -1 THEN "wait"
    ELSE IF usecs > 0 THEN "wait"
    ELSE "false"

pop_item == f_queue[scan(1, f_dependencies, f_processing).idx]

pop_front(p, usecs) ==
    LET s == scan(1, f_dependencies, f_processing)
        q == IF s.idx > 0 THEN erase(f_queue, s.idx) ELSE f_queue
        suspended == pop_outcome(usecs) = "wait"
        bc == ~suspended /\ cleanup(q)
    IN  /\ f_queue' = q
        /\ f_dependencies' = s.deps
        /\ f_processing' = s.proc
        /\ f_broadcast' = (f_broadcast \/ bc)
        /\ f_waiting' = IF bc THEN {}
                        ELSE IF suspended THEN f_waiting \cup {p}
                        ELSE f_waiting
        /\ f_woken' = (f_woken \ {p}) \cup (IF bc THEN f_waiting ELSE {})
        /\ broadcasts' = (IF bc THEN counted(broadcasts) ELSE broadcasts)
        /\ UNCHANGED f_done

\* timed_wait() returned false in pop_front: break, cleanup(), return false
\* (mutant) the timeout drops the first item
pop_timeout_drops(p) ==
    LET bc == cleanup(f_queue) IN
    /\ f_broadcast' = (f_broadcast \/ bc)
    /\ f_waiting' = IF bc THEN {} ELSE f_waiting \ {p}
    /\ f_woken' = f_woken \cup (IF bc THEN f_waiting \ {p} ELSE {})
    /\ broadcasts' = (IF bc THEN counted(broadcasts) ELSE broadcasts)
    /\ f_queue' = IF f_queue = <<>> THEN <<>> ELSE Tail(f_queue)
    /\ UNCHANGED f_done

pop_timeout(p) ==
    LET bc == cleanup(f_queue) IN
    /\ f_broadcast' = (f_broadcast \/ bc)
    /\ f_waiting' = IF bc THEN {} ELSE f_waiting \ {p}
    /\ f_woken' = f_woken \cup (IF bc THEN f_waiting \ {p} ELSE {})
    /\ broadcasts' = (IF bc THEN counted(broadcasts) ELSE broadcasts)
    /\ UNCHANGED <<f_queue, f_done>>

\* fifo::clear()
\* fifo::size() and fifo::empty(), each read under the lock
size == Len(f_queue)

empty == f_queue = <<>>

\* (mutant) the first item only is removed
clear_front ==
    /\ f_queue' = IF f_queue = <<>> THEN <<>> ELSE Tail(f_queue)
    /\ UNCHANGED <<f_done, f_broadcast, f_waiting, f_woken, broadcasts>>

clear ==
    /\ f_queue' = <<>>
    /\ UNCHANGED <<f_done, f_broadcast, f_waiting, f_woken, broadcasts>>

\* (mutant) done() without the broadcast
done_silent(clr) ==
    /\ f_done' = TRUE
    /\ f_queue' = IF clr THEN <<>> ELSE f_queue
    /\ UNCHANGED <<f_broadcast, f_waiting, f_woken, broadcasts>>

\* fifo::done(clear)
done(clr) ==
    LET q == IF clr THEN <<>> ELSE f_queue IN
    /\ f_done' = TRUE
    /\ f_queue' = q
    /\ IF q = <<>>
       THEN /\ f_broadcast' = TRUE
            /\ f_woken' = f_woken \cup f_waiting
            /\ f_waiting' = {}
            /\ broadcasts' = counted(broadcasts)
       ELSE UNCHANGED <<f_broadcast, f_waiting, f_woken, broadcasts>>

\* pthread_cond_wait() may return without any signal
SpuriousWake(p) ==
    /\ p \in f_waiting
    /\ f_waiting' = f_waiting \ {p}
    /\ f_woken' = f_woken \cup {p}

\* -------------------------------------------------------- fifo clients
Idle == [pc |-> "idle", op |-> "none", arg |-> 0, ret |-> FALSE, out |-> None]

ClientPush(c, v) ==
    /\ cl[c].pc = "idle"
    /\ v \notin Range(f_queue)
    /\ push_back(v)
    /\ cl' = [cl EXCEPT ![c] = [@ EXCEPT !.pc = "ret", !.op = "push_back",
                                         !.arg = v, !.ret = push_back_result]]
    /\ UNCHANGED <<itemType, soloVars, objVars, itemVars, held, poolVars, threadVars>>

\* c has returned from pop_front() and still holds the item it was given
PopHolds(c) ==
    cl[c].pc = "ret" /\ cl[c].op = "pop_front" /\ cl[c].out # None

\* the steps of a pop_front call: after the pass, the caller returns or is
\* suspended
pop_step(c, usecs) ==
    /\ pop_front(c, usecs)
    /\ cl' = [cl EXCEPT ![c] =
                CASE pop_outcome(usecs) = "true" ->
                        [@ EXCEPT !.pc = "ret", !.op = "pop_front", !.arg = usecs,
                                  !.ret = TRUE, !.out = pop_item]
                  [] pop_outcome(usecs) = "false" ->
                        [@ EXCEPT !.pc = "ret", !.op = "pop_front", !.arg = usecs,
                                  !.ret = FALSE]
                  [] OTHER ->
                        [@ EXCEPT !.pc = "pop", !.op = "pop_front", !.arg = usecs]]
    /\ UNCHANGED <<itemType, soloVars, objVars, f_ready, held, poolVars, threadVars>>

ClientPop(c, usecs) ==
    /\ cl[c].pc = "idle"
    /\ pop_step(c, usecs)

\* pop_front(v, 0) called again with a v that still holds the item of the
\* previous call: v is assigned only when an item is returned
ClientPopAgain(c) ==
    /\ PopHolds(c)
    /\ pop_step(c, 0)

ClientPopWoken(c) ==
    /\ cl[c].pc = "pop"
    /\ c \in f_woken
    /\ pop_step(c, cl[c].arg)

ClientPopTimeout(c) ==
    /\ cl[c].pc = "pop"
    /\ cl[c].arg > 0
    /\ c \in f_waiting
    /\ pop_timeout(c)
    /\ cl' = [cl EXCEPT ![c] = [@ EXCEPT !.pc = "ret", !.ret = FALSE]]
    /\ UNCHANGED <<itemType, soloVars, objVars, itemVars, held, poolVars, threadVars>>

ClientSpurious(c) ==
    /\ cl[c].pc = "pop"
    /\ SpuriousWake(c)
    /\ UNCHANGED <<itemType, soloVars, objVars, f_queue, f_done, f_broadcast, broadcasts,
                   itemVars, held, cl,
                   poolVars, threadVars>>

ClientClear(c) ==
    /\ cl[c].pc = "idle"
    /\ clear
    /\ cl' = [cl EXCEPT ![c] = [@ EXCEPT !.pc = "ret", !.op = "clear"]]
    /\ UNCHANGED <<itemType, soloVars, objVars, itemVars, held, poolVars, threadVars>>

ClientDone(c, clr) ==
    /\ cl[c].pc = "idle"
    /\ done(clr)
    /\ cl' = [cl EXCEPT ![c] = [@ EXCEPT !.pc = "ret", !.op = "done",
                                         !.arg = IF clr THEN 1 ELSE 0]]
    /\ UNCHANGED <<itemType, soloVars, objVars, itemVars, held, poolVars, threadVars>>

ClientReturn(c) ==
    /\ cl[c].pc = "ret"
    /\ cl' = [cl EXCEPT ![c] = Idle]
    /\ UNCHANGED <<itemType, soloVars, objVars, fifoVars, itemVars, held, poolVars, threadVars>>

\* the owner of an item with its own predicate changes f_ready
SetReady(i, b) ==
    /\ itemType = "own"
    /\ f_ready[i] # b
    /\ f_ready' = [f_ready EXCEPT ![i] = b]
    /\ UNCHANGED <<itemType, soloVars, objVars, fifoVars, f_dependencies, f_processing, held, cl,
                   poolVars, threadVars>>

\* ------------------------------------------------------ fifo on its own
InitItems ==
    /\ f_ready = [i \in Items |-> TRUE]
    /\ f_dependencies = [i \in Items |-> {}]
    /\ f_processing = [i \in Items |-> FALSE]
    /\ held = {}

InitFifo ==
    /\ f_queue = <<>>
    /\ f_done = FALSE
    /\ f_broadcast = FALSE
    /\ broadcasts = 0
    /\ f_waiting = {}
    /\ f_woken = {}

\* no pool
InitNoPool ==
    /\ f_workload = [w \in Workers |-> None]
    /\ f_working = [w \in Workers |-> FALSE]
    /\ out_queue = <<>>
    /\ ppc = [pc |-> "none", imm |-> FALSE, w |-> 0]
    /\ pushed = {}
    /\ worked = [i \in Items |-> 0]
    /\ arrived = [i \in Items |-> 0]
    /\ refused = {}

\* no call was made on an item
NoItemCall == [op |-> "none", item |-> None, ret |-> "none", turn |-> 0]

\* every worker has the input and the output fifo
InitWired ==
    /\ f_in = [w \in Workers |-> InFifo]
    /\ f_out = [w \in Workers |-> OutFifo]

\* no call was made on the mutex
NoMutexCall == [thread |-> None, op |-> "none", ret |-> "none", turn |-> 0]

\* mutex::mutex() and no guard
InitMutex ==
    /\ f_reference_count = 0
    /\ m_owner = None
    /\ m_level = 0
    /\ raw = [c \in Clients |-> 0]
    /\ mcall = NoMutexCall
    /\ g_alive = [c \in Clients |-> FALSE]
    /\ g_mutex = [c \in Clients |-> FALSE]
    /\ g_locked = [c \in Clients |-> FALSE]
    /\ g_done = [c \in Clients |-> FALSE]

\* no thread is in a call on a thread object, no guard is alive
NoLop == [op |-> "none", cb |-> "null", log |-> <<>>]

InitLk ==
    /\ mx = [p \in Callers \cup Workers |-> {}]
    /\ lop = [c \in Callers |-> NoLop]

InitSolo ==
    /\ validated = {}
    /\ icall = NoItemCall
    /\ InitMutex
    /\ InitLk

\* nobody is in a call of start() or stop()
NoCall ==
    [pc |-> "idle", op |-> "none", obj |-> None, ret |-> "none",
     tid |-> THREAD_UNDEFINED, ready |-> TRUE, runner |-> None]

InitCallers ==
    /\ cr = [c \in Callers |-> NoCall]
    /\ t_waiting = {}
    /\ t_woken = {}

\* no thread object was constructed
InitDetached ==
    /\ f_runner = [t \in Workers |-> None]
    /\ f_thread = [r \in Runners |-> None]

\* thread objects that were never started
InitNoThread ==
    /\ f_running = [t \in Workers |-> FALSE]
    /\ f_started = [t \in Workers |-> FALSE]
    /\ f_stopping = [t \in Workers |-> FALSE]
    /\ f_exception = [t \in Workers |-> NoException]
    /\ f_tid = [t \in Workers |-> PID_UNDEFINED]
    /\ tpc = [t \in Workers |-> "none"]
    /\ events = [t \in Workers |-> <<>>]
    /\ f_thread_id = [t \in Workers |-> THREAD_UNDEFINED]
    /\ system_thread = [t \in Workers |-> None]
    /\ InitCallers

Init ==
    /\ itemType \in {"plain", "own"}
    /\ InitFifo
    /\ InitItems
    /\ cl = [c \in Clients |-> Idle]
    /\ InitNoPool
    /\ InitNoThread
    /\ InitDetached
    /\ InitSolo
    /\ InitWired

Next ==
    \/ \E c \in Clients, v \in Items : ClientPush(c, v)
    \/ \E c \in Clients, u \in Usecs : ClientPop(c, u)
    \/ \E c \in Clients : ClientPopWoken(c)
    \/ \E c \in Clients : ClientPopTimeout(c)
    \/ \E c \in Clients : ClientSpurious(c)
    \/ \E c \in Clients : ClientClear(c)
    \/ \E c \in Clients, clr \in BOOLEAN : ClientDone(c, clr)
    \/ \E c \in Clients : ClientReturn(c)
    \/ \E i \in Items, b \in BOOLEAN : SetReady(i, b)

Spec == Init /\ [][Next]_vars

\* the same clients, which may also call pop_front(v, 0) with the v of
\* their last call
NextRepop ==
    \/ Next
    \/ \E c \in Clients : ClientPopAgain(c)

SpecRepop == Init /\ [][NextRepop]_vars

\* ------------------------------------- blocking consumers and producers
\* The fifo used as a channel: consumers call pop_front(v, -1), producers
\* call push_back() and done(); an item's own predicate does not change
\* while the item is queued.
InitLive ==
    /\ itemType \in {"plain", "own"}
    /\ InitFifo
    /\ f_ready \in [Items -> BOOLEAN]
    /\ (itemType = "plain" => f_ready = [i \in Items |-> TRUE])
    /\ f_dependencies = [i \in Items |-> {}]
    /\ f_processing = [i \in Items |-> FALSE]
    /\ held = {}
    /\ cl = [c \in Clients |-> Idle]
    /\ InitNoPool
    /\ InitNoThread
    /\ InitDetached
    /\ InitSolo
    /\ InitWired

NextLive ==
    \/ \E c \in Clients, v \in Items : ClientPush(c, v)
    \/ \E c \in Clients : ClientPop(c, -1)
    \/ \E c \in Clients : ClientPopWoken(c)
    \/ \E c \in Clients : ClientSpurious(c)
    \/ \E c \in Clients, clr \in BOOLEAN : ClientDone(c, clr)
    \/ \E c \in Clients : ClientReturn(c)

\* a thread released from a condition wait gets the mutex and runs again
SpecLive ==
    /\ InitLive
    /\ [][NextLive]_vars
    /\ \A c \in Clients : WF_vars(ClientPopWoken(c))

\* ------------------------------------------------- thread trampoline
\* f_mutex.signal() on the mutex of the thread object
thread_signal(t) ==
    IF \A c \in t_waiting : cr[c].obj # t
    THEN UNCHANGED <<t_waiting, t_woken>>
    ELSE \E c \in t_waiting :
            /\ cr[c].obj = t
            /\ t_waiting' = t_waiting \ {c}
            /\ t_woken' = t_woken \cup {c}

\* the first critical section of thread::internal_thread()
ChildFirst(t) ==
    /\ tpc[t] = "first"
    /\ f_tid' = [f_tid EXCEPT ![system_thread[t]] = t]
    /\ f_started' = [f_started EXCEPT ![system_thread[t]] = TRUE]
    /\ thread_signal(system_thread[t])
    /\ tpc' = [tpc EXCEPT ![t] = "enter"]
    /\ UNCHANGED <<itemType, soloVars, objVars, fifoVars, itemVars, held, cl, poolVars,
                   f_running, f_stopping, f_exception, events, cr>>

\* a trampoline that goes on with run() whatever enter() did
ChildEnter_unchecked(t, throws) ==
    /\ tpc[t] = "enter"
    /\ events' = [events EXCEPT ![t] =
                        Append(@, IF throws THEN "enter_throws" ELSE "enter")]
    /\ IF throws
       THEN f_exception' = [f_exception EXCEPT ![system_thread[t]] = "enter"]
       ELSE UNCHANGED f_exception
    /\ tpc' = [tpc EXCEPT ![t] = "run"]
    /\ UNCHANGED <<itemType, soloVars, objVars, fifoVars, itemVars, held, cl, poolVars,
                   f_running, f_started, f_stopping, f_tid,
                   callVars>>

\* thread::internal_enter(): runner::enter() returns or throws a standard
\* exception, which is kept in f_exception
ChildEnter(t, throws) ==
    /\ tpc[t] = "enter"
    /\ events' = [events EXCEPT ![t] =
                        Append(@, IF throws THEN "enter_throws" ELSE "enter")]
    /\ IF throws
       THEN /\ f_exception' = [f_exception EXCEPT ![system_thread[t]] = "enter"]
            /\ tpc' = [tpc EXCEPT ![t] = "leave_initialization_failed"]
       ELSE /\ tpc' = [tpc EXCEPT ![t] = "run"]
            /\ UNCHANGED f_exception
    /\ UNCHANGED <<itemType, soloVars, objVars, fifoVars, itemVars, held, cl, poolVars,
                   f_running, f_started, f_stopping, f_tid,
                   callVars>>

\* an internal_leave() that keeps the exception of leave() whatever the slot
\* holds
ChildLeave_overwrites(t, throws) ==
    /\ tpc[t] \in {"leave_normal", "leave_initialization_failed",
                   "leave_thread_failed"}
    /\ events' = [events EXCEPT ![t] =
                    IF throws THEN @ \o <<tpc[t], "leave_throws">>
                    ELSE Append(@, tpc[t])]
    /\ IF throws
       THEN f_exception' = [f_exception EXCEPT ![system_thread[t]] = "leave"]
       ELSE UNCHANGED f_exception
    /\ tpc' = [tpc EXCEPT ![t] = "final"]
    /\ UNCHANGED <<itemType, soloVars, objVars, fifoVars, itemVars, held, cl, poolVars,
                   f_running, f_started, f_stopping, f_tid,
                   callVars>>

\* thread::internal_leave(status): runner::leave() returns or throws; its
\* exception is kept only when f_exception is still empty
ChildLeave(t, throws) ==
    /\ tpc[t] \in {"leave_normal", "leave_initialization_failed",
                   "leave_thread_failed"}
    /\ events' = [events EXCEPT ![t] =
                    IF throws THEN @ \o <<tpc[t], "leave_throws">>
                    ELSE Append(@, tpc[t])]
    /\ IF throws /\ f_exception[system_thread[t]] = NoException
       THEN f_exception' = [f_exception EXCEPT ![system_thread[t]] = "leave"]
       ELSE UNCHANGED f_exception
    /\ tpc' = [tpc EXCEPT ![t] = "final"]
    /\ UNCHANGED <<itemType, soloVars, objVars, fifoVars, itemVars, held, cl, poolVars,
                   f_running, f_started, f_stopping, f_tid,
                   callVars>>

\* ---------------------------------------------------------------- worker
\* A call through a null f_in or f_out is undefined: the process is killed
\* by the access to the members of the fifo, or the call comes back as if
\* nothing had been done.
NullCall == {"crashed", "loop"}

\* the process was killed
Crashed == \E w \in Workers : tpc[w] = "crashed"

\* a continue_running() that never asks the thread
continue_running_always(r) == TRUE

\* runner::continue_running() of runner r
continue_running(r) ==
    IF f_thread[r] = None THEN TRUE ELSE ~f_stopping[f_thread[r]]

\* worker::run(), the call f_in->pop_front(f_workload, -1): one pass, after
\* which the worker has its workload, leaves the loop (pop_front returned
\* false and is_done() is true) or is suspended
worker_pop(w) ==
    /\ pop_front(w, -1)
    /\ CASE pop_outcome(-1) = "true" ->
                /\ f_workload' = [f_workload EXCEPT ![w] = pop_item]
                /\ tpc' = [tpc EXCEPT ![w] = "popped"]
         [] pop_outcome(-1) = "false" ->
                /\ tpc' = [tpc EXCEPT ![w] = IF f_done THEN "leave_normal" ELSE "loop"]
                /\ UNCHANGED f_workload
         [] OTHER ->
                /\ tpc' = [tpc EXCEPT ![w] = "pop"]
                /\ UNCHANGED f_workload
    /\ UNCHANGED <<itemType, soloVars, objVars, f_ready, held, cl, f_working, out_queue, ppc,
                   histVars, flagVars, events,
                   callVars>>

\* worker::run() is entered: f_working = false
WorkerRun(w) ==
    /\ tpc[w] = "run"
    /\ f_working' = [f_working EXCEPT ![w] = FALSE]
    /\ events' = [events EXCEPT ![w] = Append(@, "run")]
    /\ tpc' = [tpc EXCEPT ![w] = "loop"]
    /\ UNCHANGED <<itemType, soloVars, objVars, fifoVars, itemVars, held, cl, f_workload, out_queue,
                   ppc, histVars, flagVars,
                   callVars>>

\* while(continue_running()) followed by the call of pop_front
WorkerLoop(w) ==
    /\ tpc[w] = "loop"
    /\ IF continue_running(w)
       THEN IF f_in[w] = None
            THEN /\ \E after \in NullCall : tpc' = [tpc EXCEPT ![w] = after]
                 /\ UNCHANGED <<itemType, soloVars, objVars, fifoVars, itemVars, held,
                                cl, poolVars, flagVars, events, callVars>>
            ELSE worker_pop(w)
       ELSE /\ tpc' = [tpc EXCEPT ![w] = "leave_normal"]
            /\ UNCHANGED <<itemType, soloVars, objVars, fifoVars, itemVars, held, cl, poolVars,
                           flagVars, events,
                   callVars>>

\* the worker returns from the wait() of pop_front and looks again
WorkerPopWoken(w) ==
    /\ tpc[w] = "pop"
    /\ w \in f_woken
    /\ worker_pop(w)

WorkerSpurious(w) ==
    /\ tpc[w] = "pop"
    /\ SpuriousWake(w)
    /\ UNCHANGED <<itemType, soloVars, objVars, f_queue, f_done, f_broadcast, broadcasts,
                   itemVars, held, cl,
                   poolVars, threadVars>>

\* pop_front returned true: if(continue_running()) the worker is marked as
\* working, otherwise the workload is not used
WorkerPopped(w) ==
    /\ tpc[w] = "popped"
    /\ IF continue_running(w)
       THEN /\ f_working' = [f_working EXCEPT ![w] = TRUE]
            /\ tpc' = [tpc EXCEPT ![w] = "work"]
       ELSE /\ tpc' = [tpc EXCEPT ![w] = "loop"]
            /\ UNCHANGED f_working
    /\ UNCHANGED <<itemType, soloVars, objVars, fifoVars, itemVars, held, cl, f_workload, out_queue,
                   ppc, histVars, flagVars, events,
                   callVars>>

\* (mutant) do_work() returns r; the workload is pushed to f_out either way
WorkerDoWork_forwards(w, r) ==
    /\ tpc[w] = "work"
    /\ worked' = [worked EXCEPT ![f_workload[w]] = @ + 1]
    /\ refused' = IF r THEN refused ELSE refused \cup {f_workload[w]}
    /\ out_queue' = Append(out_queue, f_workload[w])
    /\ arrived' = [arrived EXCEPT ![f_workload[w]] = @ + 1]
    /\ f_working' = [f_working EXCEPT ![w] = FALSE]
    /\ tpc' = [tpc EXCEPT ![w] = "loop"]
    /\ UNCHANGED <<itemType, soloVars, objVars, fifoVars, itemVars, held, cl, f_workload, ppc,
                   pushed, flagVars, events,
                   callVars>>

\* do_work() returns r; if true the workload is pushed to f_out, which is
\* not tested for nullptr
WorkerDoWork(w, r) ==
    /\ tpc[w] = "work"
    /\ worked' = [worked EXCEPT ![f_workload[w]] = @ + 1]
    /\ refused' = IF r THEN refused ELSE refused \cup {f_workload[w]}
    /\ IF r /\ f_out[w] = None
       THEN /\ \E after \in NullCall :
                 /\ tpc' = [tpc EXCEPT ![w] = after]
                 /\ f_working' = [f_working EXCEPT ![w] = (after = "crashed")]
            /\ UNCHANGED <<out_queue, arrived>>
       ELSE /\ IF r
               THEN /\ out_queue' = Append(out_queue, f_workload[w])
                    /\ arrived' = [arrived EXCEPT ![f_workload[w]] = @ + 1]
               ELSE UNCHANGED <<out_queue, arrived>>
            /\ f_working' = [f_working EXCEPT ![w] = FALSE]
            /\ tpc' = [tpc EXCEPT ![w] = "loop"]
    /\ UNCHANGED <<itemType, soloVars, objVars, fifoVars, itemVars, held, cl, f_workload, ppc,
                   pushed, flagVars, events,
                   callVars>>

\* a last critical section that resets f_started as well
ChildFinal_resets(t) ==
    /\ tpc[t] = "final"
    /\ f_running' = [f_running EXCEPT ![system_thread[t]] = FALSE]
    /\ f_started' = [f_started EXCEPT ![system_thread[t]] = FALSE]
    /\ f_tid' = [f_tid EXCEPT ![system_thread[t]] = PID_UNDEFINED]
    /\ thread_signal(system_thread[t])
    /\ tpc' = [tpc EXCEPT ![t] = "exited"]
    /\ UNCHANGED <<itemType, soloVars, objVars, fifoVars, itemVars, held, cl, poolVars,
                   f_stopping, f_exception, events, cr>>

\* the last critical section of thread::internal_thread(); the OS thread
\* ends
ChildFinal(t) ==
    /\ tpc[t] = "final"
    /\ f_running' = [f_running EXCEPT ![system_thread[t]] = FALSE]
    /\ f_tid' = [f_tid EXCEPT ![system_thread[t]] = PID_UNDEFINED]
    /\ thread_signal(system_thread[t])
    /\ tpc' = [tpc EXCEPT ![t] = "exited"]
    /\ UNCHANGED <<itemType, soloVars, objVars, fifoVars, itemVars, held, cl, poolVars,
                   f_started, f_stopping, f_exception, events, cr>>

\* ------------------------------------------------------------------ pool
\* pool::push_back(v) by the owner of the pool
PoolPush(i) ==
    /\ ppc.pc = "run"
    /\ i \in held /\ i \notin pushed
    /\ push_back(i)
    /\ pushed' = IF push_back_result THEN pushed \cup {i} ELSE pushed
    /\ UNCHANGED <<itemType, soloVars, objVars, itemVars, held, cl, workerVars, ppc, worked,
                   arrived, refused, threadVars>>

\* the producer drops its shared_ptr to an item
Release(i) ==
    /\ itemType = "iwp"
    /\ i \in held
    /\ held' = held \ {i}
    /\ UNCHANGED <<itemType, soloVars, objVars, fifoVars, itemVars, cl, poolVars, threadVars>>

\* the consumer takes a result with pool::pop_front(v, 0) and drops it
OutPop ==
    /\ ppc.pc # "none"
    /\ out_queue # <<>>
    /\ out_queue' = Tail(out_queue)
    /\ UNCHANGED <<itemType, soloVars, objVars, fifoVars, itemVars, held, cl, f_workload, f_working,
                   ppc, histVars, threadVars>>

\* pool::stop(immediate)
PoolStop(immediate) ==
    /\ ppc.pc = "run"
    /\ IF ~f_done THEN done(immediate) ELSE UNCHANGED fifoVars
    /\ ppc' = [pc |-> "stopped", imm |-> immediate, w |-> 0]
    /\ UNCHANGED <<itemType, soloVars, objVars, itemVars, held, cl, workerVars, histVars, threadVars>>

\* thread::stop() up to pthread_join(), called by ~thread() on the thread
\* of worker w: the child is asked to stop
stop_request(w) ==
    IF ~f_running[w] /\ ~f_started[w]
    THEN f_stopping
    ELSE [f_stopping EXCEPT ![w] = TRUE]

\* pool::wait(): f_workers.clear() destroys the first worker_thread_t, thus
\* its thread
PoolWait ==
    /\ ppc.pc = "stopped"
    /\ f_stopping' = stop_request(1)
    /\ ppc' = [ppc EXCEPT !.pc = "join", !.w = 1]
    /\ UNCHANGED <<itemType, soloVars, objVars, fifoVars, itemVars, held, cl, workerVars, histVars,
                   f_running, f_started, f_exception, f_tid, tpc, events,
                   callVars>>

\* pthread_join() returns for worker w: the end of thread::stop(), of
\* ~thread() and of ~worker_thread_t(), then the next worker_thread_t
PoolJoin ==
    LET w == ppc.w IN
    /\ ppc.pc = "join"
    /\ tpc[w] = "exited"
    /\ tpc' = [tpc EXCEPT ![w] = "none"]
    /\ f_running' = [f_running EXCEPT ![w] = FALSE]
    /\ f_started' = [f_started EXCEPT ![w] = FALSE]
    /\ f_exception' = [f_exception EXCEPT ![w] = NoException]
    /\ f_workload' = [f_workload EXCEPT ![w] = None]
    /\ IF w < NWorkers
       THEN /\ f_stopping' = [stop_request(w + 1) EXCEPT ![w] = FALSE]
            /\ ppc' = [ppc EXCEPT !.w = w + 1]
       ELSE /\ f_stopping' = [f_stopping EXCEPT ![w] = FALSE]
            /\ ppc' = [ppc EXCEPT !.pc = "waited"]
    /\ UNCHANGED <<itemType, soloVars, objVars, fifoVars, itemVars, held, cl, f_working, out_queue,
                   histVars, f_tid, events,
                   callVars>>

\* The state a pool is in once constructed: every worker thread was started
\* and has run the first critical section of its trampoline; the producer
\* has created the items and named their dependencies.
InitPool ==
    /\ itemType \in {"plain", "iwp"}
    /\ InitFifo
    /\ f_ready = [i \in Items |-> TRUE]
    /\ f_dependencies \in [Items -> SUBSET Jobs]
    /\ \A i \in Items : \A j \in f_dependencies[i] : j < i /\ i \in Jobs
    /\ (itemType = "plain" => f_dependencies = [i \in Items |-> {}])
    /\ f_processing = [i \in Items |-> FALSE]
    /\ held = Jobs
    /\ cl = [c \in Clients |-> Idle]
    /\ f_workload = [w \in Workers |-> None]
    /\ f_working = [w \in Workers |-> FALSE]
    /\ out_queue = <<>>
    /\ ppc = [pc |-> "run", imm |-> FALSE, w |-> 0]
    /\ pushed = {}
    /\ worked = [i \in Items |-> 0]
    /\ arrived = [i \in Items |-> 0]
    /\ refused = {}
    /\ f_running = [t \in Workers |-> TRUE]
    /\ f_started = [t \in Workers |-> TRUE]
    /\ f_stopping = [t \in Workers |-> FALSE]
    /\ f_exception = [t \in Workers |-> NoException]
    /\ f_tid = [t \in Workers |-> t]
    /\ tpc = [t \in Workers |-> "enter"]
    /\ events = [t \in Workers |-> <<>>]
    /\ f_thread_id = [t \in Workers |-> t]
    /\ system_thread = [t \in Workers |-> t]
    /\ f_runner = [t \in Workers |-> t]
    /\ f_thread = [r \in Runners |-> r]
    /\ InitCallers
    /\ InitSolo
    /\ InitWired

\* the steps of the thread of worker w, but for the spurious wake-up
WorkerStep(w) ==
    \/ ChildEnter(w, FALSE)
    \/ WorkerRun(w)
    \/ WorkerLoop(w)
    \/ WorkerPopWoken(w)
    \/ WorkerPopped(w)
    \/ \E r \in BOOLEAN : WorkerDoWork(w, r)
    \/ ChildLeave(w, FALSE)
    \/ ChildFinal(w)

NextPool ==
    \/ \E w \in Workers : WorkerStep(w)
    \/ \E w \in Workers : WorkerSpurious(w)
    \/ \E i \in Jobs : PoolPush(i)
    \/ \E i \in Jobs : Release(i)
    \/ OutPop
    \/ \E immediate \in BOOLEAN : PoolStop(immediate)
    \/ PoolWait
    \/ PoolJoin

\* every thread that can run does run; pthread_join() returns once the
\* thread has ended
SpecPool ==
    /\ InitPool
    /\ [][NextPool]_vars
    /\ \A w \in Workers : WF_vars(WorkerStep(w))
    /\ WF_vars(PoolJoin)

\* the consumer of the output fifo keeps taking the results
SpecPoolDrain ==
    /\ SpecPool
    /\ WF_vars(OutPop)

\* A pool at work: nobody calls stop() or wait(), so that no worker leaves
\* its loop.
WorkerWorkStep(w) ==
    \/ ChildEnter(w, FALSE)
    \/ WorkerRun(w)
    \/ WorkerLoop(w)
    \/ WorkerPopWoken(w)
    \/ WorkerPopped(w)
    \/ \E r \in BOOLEAN : WorkerDoWork(w, r)

NextPoolWork ==
    \/ \E w \in Workers : WorkerWorkStep(w)
    \/ \E w \in Workers : WorkerSpurious(w)
    \/ \E i \in Jobs : PoolPush(i)
    \/ \E i \in Jobs : Release(i)
    \/ OutPop

SpecPoolWork ==
    /\ InitPool
    /\ [][NextPoolWork]_vars
    /\ \A w \in Workers : WF_vars(WorkerWorkStep(w))

\* ------------------------------------------------- workers one by one
\* pool::worker_thread_t::worker_thread_t(name, i, in, out): the worker is
\* constructed with the two fifo pointers, its thread is constructed on it
\* and started; start() returns once the child has run the first critical
\* section of its trampoline.  Neither constructor looks at in or out.
WorkerThreadNew(w, in, out) ==
    /\ ~Crashed
    /\ f_thread[w] = None /\ tpc[w] = "none"
    /\ f_in' = [f_in EXCEPT ![w] = in]
    /\ f_out' = [f_out EXCEPT ![w] = out]
    /\ f_runner' = [f_runner EXCEPT ![w] = w]
    /\ f_thread' = [f_thread EXCEPT ![w] = w]
    /\ f_thread_id' = [f_thread_id EXCEPT ![w] = w]
    /\ system_thread' = [system_thread EXCEPT ![w] = w]
    /\ f_running' = [f_running EXCEPT ![w] = TRUE]
    /\ f_started' = [f_started EXCEPT ![w] = TRUE]
    /\ f_tid' = [f_tid EXCEPT ![w] = w]
    /\ tpc' = [tpc EXCEPT ![w] = "enter"]
    /\ UNCHANGED <<itemType, validated, icall, lockVars, lkVars, fifoVars, itemVars, held,
                   cl, poolVars, f_stopping, f_exception, events, callVars>>

\* no worker is constructed yet; the owner holds the items it will push
InitWorker ==
    /\ itemType = "plain"
    /\ InitFifo
    /\ f_ready = [i \in Items |-> TRUE]
    /\ f_dependencies = [i \in Items |-> {}]
    /\ f_processing = [i \in Items |-> FALSE]
    /\ held = Jobs
    /\ cl = [c \in Clients |-> Idle]
    /\ InitNoPool
    /\ InitNoThread
    /\ InitDetached
    /\ InitSolo
    /\ f_in = [w \in Workers |-> None]
    /\ f_out = [w \in Workers |-> None]

\* the owner pushes an item to the input fifo
WorkerPush(i) ==
    /\ ~Crashed
    /\ i \in held /\ i \notin pushed
    /\ push_back(i)
    /\ pushed' = IF push_back_result THEN pushed \cup {i} ELSE pushed
    /\ UNCHANGED <<itemType, soloVars, objVars, itemVars, held, cl, workerVars, ppc,
                   worked, arrived, refused, threadVars>>

\* the owner takes a result from the output fifo
WorkerOutPop ==
    /\ ~Crashed
    /\ out_queue # <<>>
    /\ out_queue' = Tail(out_queue)
    /\ UNCHANGED <<itemType, soloVars, objVars, fifoVars, itemVars, held, cl,
                   f_workload, f_working, ppc, histVars, threadVars>>

\* the steps of a worker thread; nothing runs in a process which was
\* killed
WorkerAliveStep(w) == ~Crashed /\ WorkerWorkStep(w)

WorkerAliveSpurious(w) == ~Crashed /\ WorkerSpurious(w)

NextWorker ==
    \/ \E w \in Workers, in \in {None, InFifo}, out \in {None, OutFifo} :
          WorkerThreadNew(w, in, out)
    \/ \E w \in Workers : WorkerAliveStep(w)
    \/ \E w \in Workers : WorkerAliveSpurious(w)
    \/ \E i \in Jobs : WorkerPush(i)
    \/ WorkerOutPop

SpecWorker == InitWorker /\ [][NextWorker]_vars

\* ---------------------------------------------------------------- thread
\* A thread object with a runner of the user, and the threads that call
\* start() and stop() on it.

\* pthread_create(): the OS thread that is created, None when there is
\* none left
free_thread ==
    IF \E k \in Workers : tpc[k] = "none"
    THEN CHOOSE k \in Workers :
            tpc[k] = "none" /\ \A j \in Workers : tpc[j] = "none" => k <= j
    ELSE None

\* a start() that only looks at f_running
StartCall_restarts(c, t, ready, created) ==
    /\ cr[c].pc = "idle"
    /\ f_runner[t] # None
    /\ created => free_thread # None
    /\ IF f_running[t] \/ ~ready
       THEN /\ cr' = [cr EXCEPT ![c] = [NoCall EXCEPT !.pc = "ret",
                                        !.op = "start", !.obj = t, !.ret = "false",
                                !.ready = ready]]
            /\ UNCHANGED <<flagVars, tpc, events, t_waiting, t_woken, osVars>>
       ELSE /\ f_started' = [f_started EXCEPT ![t] = FALSE]
            /\ f_stopping' = [f_stopping EXCEPT ![t] = FALSE]
            /\ f_exception' = [f_exception EXCEPT ![t] = NoException]
            /\ UNCHANGED <<f_tid, t_woken>>
            /\ IF created
               THEN /\ f_running' = [f_running EXCEPT ![t] = TRUE]
                    /\ f_thread_id' = [f_thread_id EXCEPT ![t] = free_thread]
                    /\ system_thread' =
                            [system_thread EXCEPT ![free_thread] = t]
                    /\ tpc' = [tpc EXCEPT ![free_thread] = "first"]
                    /\ events' = [events EXCEPT ![free_thread] = <<>>]
                    /\ t_waiting' = t_waiting \cup {c}
                    /\ cr' = [cr EXCEPT ![c] = [NoCall EXCEPT
                                !.pc = "start_wait", !.op = "start", !.obj = t,
                                !.ready = ready]]
               ELSE /\ f_running' = [f_running EXCEPT ![t] = FALSE]
                    /\ cr' = [cr EXCEPT ![c] = [NoCall EXCEPT !.pc = "ret",
                                !.op = "start", !.obj = t, !.ret = "false",
                                !.ready = ready]]
                    /\ UNCHANGED <<tpc, events, t_waiting, osVars>>
    /\ UNCHANGED <<itemType, soloVars, attachVars, fifoVars, itemVars, held, cl,
                   poolVars>>

\* thread::start(): the critical section up to the first f_mutex.wait().
\* ready is the result of runner::is_ready(), created tells whether
\* pthread_create() returned 0.
StartCall(c, t, ready, created) ==
    /\ cr[c].pc = "idle"
    /\ f_runner[t] # None
    /\ created => free_thread # None
    /\ IF f_running[t] \/ f_started[t] \/ ~ready
       THEN /\ cr' = [cr EXCEPT ![c] = [NoCall EXCEPT !.pc = "ret",
                                        !.op = "start", !.obj = t, !.ret = "false",
                                !.ready = ready]]
            /\ UNCHANGED <<flagVars, tpc, events, t_waiting, t_woken, osVars>>
       ELSE /\ f_started' = [f_started EXCEPT ![t] = FALSE]
            /\ f_stopping' = [f_stopping EXCEPT ![t] = FALSE]
            /\ f_exception' = [f_exception EXCEPT ![t] = NoException]
            /\ UNCHANGED <<f_tid, t_woken>>
            /\ IF created
               THEN /\ f_running' = [f_running EXCEPT ![t] = TRUE]
                    /\ f_thread_id' = [f_thread_id EXCEPT ![t] = free_thread]
                    /\ system_thread' =
                            [system_thread EXCEPT ![free_thread] = t]
                    /\ tpc' = [tpc EXCEPT ![free_thread] = "first"]
                    /\ events' = [events EXCEPT ![free_thread] = <<>>]
                    /\ t_waiting' = t_waiting \cup {c}
                    /\ cr' = [cr EXCEPT ![c] = [NoCall EXCEPT
                                !.pc = "start_wait", !.op = "start", !.obj = t,
                                !.ready = ready]]
               ELSE /\ f_running' = [f_running EXCEPT ![t] = FALSE]
                    /\ cr' = [cr EXCEPT ![c] = [NoCall EXCEPT !.pc = "ret",
                                !.op = "start", !.obj = t, !.ret = "false",
                                !.ready = ready]]
                    /\ UNCHANGED <<tpc, events, t_waiting, osVars>>
    /\ UNCHANGED <<itemType, soloVars, attachVars, fifoVars, itemVars, held, cl,
                   poolVars>>

\* thread::start(): f_mutex.wait() returns and while(!f_started) is
\* evaluated again
StartWake(c, t) ==
    /\ cr[c].pc = "start_wait"
    /\ cr[c].obj = t
    /\ c \in t_woken
    /\ t_woken' = t_woken \ {c}
    /\ IF f_started[t]
       THEN /\ cr' = [cr EXCEPT ![c].pc = "ret", ![c].ret = "true"]
            /\ UNCHANGED t_waiting
       ELSE /\ t_waiting' = t_waiting \cup {c}
            /\ UNCHANGED cr
    /\ UNCHANGED <<itemType, soloVars, objVars, fifoVars, itemVars, held, cl, poolVars,
                   flagVars, tpc, events>>

\* pthread_cond_wait() may return although nobody signalled
StartSpurious(c) ==
    /\ c \in t_waiting
    /\ t_waiting' = t_waiting \ {c}
    /\ t_woken' = t_woken \cup {c}
    /\ UNCHANGED <<itemType, soloVars, objVars, fifoVars, itemVars, held, cl, poolVars,
                   flagVars, tpc, events, cr>>

\* a stop() that goes on to the join whatever the flags are
stop_call_always(c, t, op) ==
    /\ cr[c].pc = "idle"
    /\ f_runner[t] # None
    /\ cr' = [cr EXCEPT ![c] = [NoCall EXCEPT !.pc = "join",
                                !.op = op, !.obj = t]]
    /\ f_stopping' = [f_stopping EXCEPT ![t] = TRUE]
    /\ UNCHANGED <<itemType, soloVars, objVars, fifoVars, itemVars, held, cl, poolVars,
                   f_running, f_started, f_exception, f_tid, tpc, events,
                   t_waiting, t_woken>>

\* thread::stop(): the critical section, called by the user (op "stop") or
\* by ~thread() (op "delete")
stop_call(c, t, op) ==
    /\ cr[c].pc = "idle"
    /\ f_runner[t] # None
    /\ IF ~f_running[t] /\ ~f_started[t]
       THEN cr' = [cr EXCEPT ![c] = [NoCall EXCEPT !.pc = "ret",
                                     !.op = op, !.obj = t, !.ret = "void"]]
       ELSE cr' = [cr EXCEPT ![c] = [NoCall EXCEPT !.pc = "join",
                                     !.op = op, !.obj = t]]
    /\ f_stopping' = stop_request(t)
    /\ UNCHANGED <<itemType, soloVars, objVars, fifoVars, itemVars, held, cl, poolVars,
                   f_running, f_started, f_exception, f_tid, tpc, events,
                   t_waiting, t_woken>>

StopCall(c, t) == stop_call(c, t, "stop")

\* thread::stop(): pthread_join(f_thread_id, nullptr) is called
StopPthreadJoin(c, t) ==
    /\ cr[c].pc = "join"
    /\ cr[c].obj = t
    /\ cr' = [cr EXCEPT ![c].pc = "joining", ![c].tid = f_thread_id[t]]
    /\ UNCHANGED <<itemType, soloVars, objVars, fifoVars, itemVars, held, cl, poolVars,
                   flagVars, tpc, events, t_waiting, t_woken>>

\* the only thread in pthread_join() on its OS thread
joins_alone(c) ==
    \A d \in Callers \ {c} :
        cr[d].pc = "joining" => cr[d].tid # cr[c].tid

\* thread::stop(): pthread_join() returns, the OS thread has ended
StopJoin(c, t) ==
    /\ cr[c].pc = "joining"
    /\ cr[c].obj = t
    /\ tpc[cr[c].tid] = "exited"
    /\ tpc' = [tpc EXCEPT ![cr[c].tid] = "none"]
    /\ cr' = [cr EXCEPT ![c].pc = "reset"]
    /\ UNCHANGED <<itemType, soloVars, objVars, fifoVars, itemVars, held, cl, poolVars,
                   flagVars, events, t_waiting, t_woken>>

\* thread::stop(): pthread_join() on an OS thread that was joined already,
\* or that another thread is joining, is undefined; it may return at once
\* with an error, which stop() ignores, or not return
StopJoinInvalid(c, t) ==
    /\ cr[c].pc = "joining"
    /\ cr[c].obj = t
    /\ tpc[cr[c].tid] = "none" \/ ~joins_alone(c)
    /\ cr' = [cr EXCEPT ![c].pc = "reset"]
    /\ UNCHANGED <<itemType, soloVars, objVars, fifoVars, itemVars, held, cl, poolVars,
                   flagVars, tpc, events, t_waiting, t_woken>>

\* a stop() that leaves f_running and f_started as the child left them
StopReset_partial(c, t) ==
    /\ cr[c].pc = "reset"
    /\ cr[c].obj = t
    /\ f_stopping' = [f_stopping EXCEPT ![t] = FALSE]
    /\ cr' = [cr EXCEPT ![c].pc = "rethrow"]
    /\ UNCHANGED <<itemType, soloVars, objVars, fifoVars, itemVars, held, cl, poolVars,
                   f_running, f_started, f_exception, f_tid, tpc, events,
                   t_waiting, t_woken>>

\* thread::stop(): the flags are reset, the mutex is not held
StopReset(c, t) ==
    /\ cr[c].pc = "reset"
    /\ cr[c].obj = t
    /\ f_running' = [f_running EXCEPT ![t] = FALSE]
    /\ f_started' = [f_started EXCEPT ![t] = FALSE]
    /\ f_stopping' = [f_stopping EXCEPT ![t] = FALSE]
    /\ cr' = [cr EXCEPT ![c].pc = "rethrow"]
    /\ UNCHANGED <<itemType, soloVars, objVars, fifoVars, itemVars, held, cl, poolVars,
                   f_exception, f_tid, tpc, events, t_waiting, t_woken>>

\* a stop() that throws a copy and leaves the exception in the thread object
StopRethrow_keeps(c, t) ==
    /\ cr[c].pc = "rethrow"
    /\ cr[c].obj = t
    /\ cr' = [cr EXCEPT ![c].pc = "ret",
                        ![c].ret = IF f_exception[t] # NoException
                                   THEN f_exception[t] ELSE "void"]
    /\ UNCHANGED <<itemType, soloVars, objVars, fifoVars, itemVars, held, cl, poolVars,
                   flagVars, tpc, events, t_waiting, t_woken>>

\* thread::stop(): the exception of the child, if any, is taken out of the
\* thread object and thrown to the caller
StopRethrow(c, t) ==
    /\ cr[c].pc = "rethrow"
    /\ cr[c].obj = t
    /\ cr' = [cr EXCEPT ![c].pc = "ret",
                        ![c].ret = IF f_exception[t] # NoException
                                   THEN f_exception[t] ELSE "void"]
    /\ f_exception' = [f_exception EXCEPT ![t] = NoException]
    /\ UNCHANGED <<itemType, soloVars, objVars, fifoVars, itemVars, held, cl, poolVars,
                   f_running, f_started, f_stopping, f_tid, tpc, events,
                   t_waiting, t_woken>>

\* the caller goes on after its call
CallerReturn(c) ==
    /\ cr[c].pc = "ret"
    /\ cr[c].op # "delete"
    /\ cr' = [cr EXCEPT ![c] = NoCall]
    /\ UNCHANGED <<itemType, soloVars, objVars, fifoVars, itemVars, held, cl, poolVars, flagVars,
                   tpc, events, t_waiting, t_woken>>

\* a constructor that attaches the runner whoever has it
ThreadNew_steals(c, t, r) ==
    /\ cr[c].pc = "idle"
    /\ f_runner[t] = None
    /\ IF r = None
       THEN /\ cr' = [cr EXCEPT ![c] = [NoCall EXCEPT !.pc = "ret",
                        !.op = "thread", !.obj = t, !.runner = r,
                        !.ret = "invalid_error"]]
            /\ UNCHANGED <<attachVars, flagVars, f_thread_id>>
       ELSE IF FALSE
       THEN /\ cr' = [cr EXCEPT ![c] = [NoCall EXCEPT !.pc = "ret",
                        !.op = "thread", !.obj = t, !.runner = r,
                        !.ret = "in_use_error"]]
            /\ UNCHANGED <<attachVars, flagVars, f_thread_id>>
       ELSE /\ cr' = [cr EXCEPT ![c] = [NoCall EXCEPT !.pc = "ret",
                        !.op = "thread", !.obj = t, !.runner = r,
                        !.ret = "void"]]
            /\ f_runner' = [f_runner EXCEPT ![t] = r]
            /\ f_thread' = [f_thread EXCEPT ![r] = t]
            /\ f_running' = [f_running EXCEPT ![t] = FALSE]
            /\ f_started' = [f_started EXCEPT ![t] = FALSE]
            /\ f_stopping' = [f_stopping EXCEPT ![t] = FALSE]
            /\ f_exception' = [f_exception EXCEPT ![t] = NoException]
            /\ f_tid' = [f_tid EXCEPT ![t] = PID_UNDEFINED]
            /\ f_thread_id' = [f_thread_id EXCEPT ![t] = THREAD_UNDEFINED]
    /\ UNCHANGED <<itemType, soloVars, system_thread, fifoVars, itemVars, held, cl,
                   poolVars, tpc, events, t_waiting, t_woken>>

\* thread::thread(name, runner) and thread::init(): thread object t is
\* constructed on runner r, None for a null pointer
ThreadNew(c, t, r) ==
    /\ cr[c].pc = "idle"
    /\ f_runner[t] = None
    /\ IF r = None
       THEN /\ cr' = [cr EXCEPT ![c] = [NoCall EXCEPT !.pc = "ret",
                        !.op = "thread", !.obj = t, !.runner = r,
                        !.ret = "invalid_error"]]
            /\ UNCHANGED <<attachVars, flagVars, f_thread_id>>
       ELSE IF f_thread[r] # None
       THEN /\ cr' = [cr EXCEPT ![c] = [NoCall EXCEPT !.pc = "ret",
                        !.op = "thread", !.obj = t, !.runner = r,
                        !.ret = "in_use_error"]]
            /\ UNCHANGED <<attachVars, flagVars, f_thread_id>>
       ELSE /\ cr' = [cr EXCEPT ![c] = [NoCall EXCEPT !.pc = "ret",
                        !.op = "thread", !.obj = t, !.runner = r,
                        !.ret = "void"]]
            /\ f_runner' = [f_runner EXCEPT ![t] = r]
            /\ f_thread' = [f_thread EXCEPT ![r] = t]
            /\ f_running' = [f_running EXCEPT ![t] = FALSE]
            /\ f_started' = [f_started EXCEPT ![t] = FALSE]
            /\ f_stopping' = [f_stopping EXCEPT ![t] = FALSE]
            /\ f_exception' = [f_exception EXCEPT ![t] = NoException]
            /\ f_tid' = [f_tid EXCEPT ![t] = PID_UNDEFINED]
            /\ f_thread_id' = [f_thread_id EXCEPT ![t] = THREAD_UNDEFINED]
    /\ UNCHANGED <<itemType, soloVars, system_thread, fifoVars, itemVars, held, cl,
                   poolVars, tpc, events, t_waiting, t_woken>>

\* thread::~thread(): stop() is called
ThreadDelete(c, t) == stop_call(c, t, "delete")

\* a destructor without the try and catch around stop(): the exception of
\* stop() leaves the destructor before the runner is detached
ThreadDetach_throws(c, t) ==
    /\ cr[c].pc = "ret"
    /\ cr[c].op = "delete"
    /\ cr[c].obj = t
    /\ IF cr[c].ret = "void"
       THEN /\ f_thread' = [f_thread EXCEPT ![f_runner[t]] = None]
            /\ f_runner' = [f_runner EXCEPT ![t] = None]
            /\ cr' = [cr EXCEPT ![c] = NoCall]
       ELSE /\ cr' = [cr EXCEPT ![c].op = "stop"]
            /\ UNCHANGED attachVars
    /\ UNCHANGED <<itemType, soloVars, osVars, fifoVars, itemVars, held, cl, poolVars,
                   flagVars, tpc, events, t_waiting, t_woken>>

\* thread::~thread(): stop() has returned or thrown, the runner is detached
ThreadDetach(c, t) ==
    /\ cr[c].pc = "ret"
    /\ cr[c].op = "delete"
    /\ cr[c].obj = t
    /\ f_thread' = [f_thread EXCEPT ![f_runner[t]] = None]
    /\ f_runner' = [f_runner EXCEPT ![t] = None]
    /\ cr' = [cr EXCEPT ![c] = NoCall]
    /\ UNCHANGED <<itemType, soloVars, osVars, fifoVars, itemVars, held, cl, poolVars,
                   flagVars, tpc, events, t_waiting, t_woken>>

\* thread::internal_run(): runner::run() of the user is called
RunnerRun(t) ==
    /\ tpc[t] = "run"
    /\ events' = [events EXCEPT ![t] = Append(@, "run")]
    /\ tpc' = [tpc EXCEPT ![t] = "body"]
    /\ UNCHANGED <<itemType, soloVars, objVars, fifoVars, itemVars, held, cl, poolVars, flagVars,
                   callVars>>

\* runner::run() returns
RunnerReturn(t) ==
    /\ tpc[t] = "body"
    /\ tpc' = [tpc EXCEPT ![t] = "leave_normal"]
    /\ UNCHANGED <<itemType, soloVars, objVars, fifoVars, itemVars, held, cl, poolVars, flagVars,
                   events, callVars>>

\* a run() written as while(continue_running()) { ... } returns once the
\* thread is asked to stop
RunnerStopped(t) ==
    /\ tpc[t] = "body"
    /\ ~continue_running(f_runner[system_thread[t]])
    /\ RunnerReturn(t)

\* runner::run() throws a standard exception, which internal_run() keeps
RunnerThrow(t) ==
    /\ tpc[t] = "body"
    /\ events' = [events EXCEPT ![t] = Append(@, "run_throws")]
    /\ f_exception' = [f_exception EXCEPT ![system_thread[t]] = "run"]
    /\ tpc' = [tpc EXCEPT ![t] = "leave_thread_failed"]
    /\ UNCHANGED <<itemType, soloVars, objVars, fifoVars, itemVars, held, cl, poolVars,
                   f_running, f_started, f_stopping, f_tid, callVars>>

InitThread ==
    /\ itemType = "plain"
    /\ InitFifo
    /\ InitItems
    /\ cl = [c \in Clients |-> Idle]
    /\ InitNoPool
    /\ InitNoThread
    /\ f_runner = [t \in Workers |-> IF t = 1 THEN 1 ELSE None]
    /\ f_thread = [r \in Runners |-> IF r = 1 THEN 1 ELSE None]
    /\ InitSolo
    /\ InitWired

\* the steps of the OS thread of thread object t that are bound to happen
ChildStep(t) ==
    \/ ChildFirst(t)
    \/ \E throws \in BOOLEAN : ChildEnter(t, throws)
    \/ RunnerRun(t)
    \/ RunnerStopped(t)
    \/ \E throws \in BOOLEAN : ChildLeave(t, throws)
    \/ ChildFinal(t)

\* the steps of a thread inside start() or stop() that are bound to happen
CallerStep(c, t) ==
    \/ StartWake(c, t)
    \/ StopPthreadJoin(c, t)
    \/ StopJoin(c, t)
    \/ StopReset(c, t)
    \/ StopRethrow(c, t)
    \/ CallerReturn(c)

NextThread ==
    \/ \E c \in Callers, ready, created \in BOOLEAN :
            StartCall(c, 1, ready, created)
    \/ \E c \in Callers : StopCall(c, 1)
    \/ \E c \in Callers : CallerStep(c, 1)
    \/ \E c \in Callers : StartSpurious(c)
    \/ \E c \in Callers : StopJoinInvalid(c, 1)
    \/ \E k \in Workers : ChildStep(k)
    \/ \E k \in Workers : RunnerReturn(k)
    \/ \E k \in Workers : RunnerThrow(k)

\* every thread that can run does run
SpecThread ==
    /\ InitThread
    /\ [][NextThread]_vars
    /\ \A k \in Workers : WF_vars(ChildStep(k))
    /\ \A c \in Callers : WF_vars(CallerStep(c, 1))

\* One thread, the owner, constructs thread objects on the runners, starts
\* and stops them and destroys them.
Owner == CHOOSE c \in Callers : \A d \in Callers : c <= d

InitOwner ==
    /\ itemType = "plain"
    /\ InitFifo
    /\ InitItems
    /\ cl = [c \in Clients |-> Idle]
    /\ InitNoPool
    /\ InitNoThread
    /\ InitDetached
    /\ InitSolo
    /\ InitWired

OwnerStep(t) ==
    \/ CallerStep(Owner, t)
    \/ ThreadDetach(Owner, t)

NextOwner ==
    \/ \E t \in Workers, r \in Runners \cup {None} : ThreadNew(Owner, t, r)
    \/ \E t \in Workers : ThreadDelete(Owner, t)
    \/ \E t \in Workers, ready, created \in BOOLEAN :
            StartCall(Owner, t, ready, created)
    \/ \E t \in Workers : StopCall(Owner, t)
    \/ \E t \in Workers : OwnerStep(t)
    \/ StartSpurious(Owner)
    \/ \E k \in Workers : ChildStep(k)
    \/ \E k \in Workers : RunnerReturn(k)
    \/ \E k \in Workers : RunnerThrow(k)

SpecOwner ==
    /\ InitOwner
    /\ [][NextOwner]_vars
    /\ \A k \in Workers : WF_vars(ChildStep(k))
    /\ \A t \in Workers : WF_vars(OwnerStep(t))

\* ------------------------------------------ thread object, lock by lock
\* The calls of the owner on thread object 1 and the trampoline of its OS
\* thread, with the guards of the library as steps of their own: a guard is
\* constructed (the mutex is locked) in one step, the statements under it
\* run in the next, the guard is destroyed (the mutex is unlocked) in a
\* third. From run() the runner calls continue_running(), and pop_front()
\* on a fifo of items with dependencies.
Mutexes == {"thread", "runner", "fifo", "item"}

LockThreads == Callers \cup Workers

\* the rest of the state, which these calls do not touch
besideLk == <<itemType, validated, icall, lockVars, ioVars, objVars, fifoVars,
              itemVars, held, cl, poolVars>>

\* the mutexes thread p holds: those its guards have locked, less the
\* thread mutex while p is inside f_mutex.wait()
Holding(p) ==
    IF p \in t_waiting \cup t_woken THEN mx[p] \ {"thread"} ELSE mx[p]

\* pthread_mutex_lock() of p on m returns
MutexFree(p, m) == \A q \in LockThreads \ {p} : m \notin Holding(q)

\* the calls made on the thread object; the callback of stop() is null or
\* given
LockedCalls ==
    {<<"start", "null">>, <<"stop", "null">>, <<"stop", "given">>,
     <<"is_stopping", "null">>}

\* guard lock(f_mutex) at the top of start(), stop() and is_stopping()
LkEnter(c, op, cbk) ==
    /\ cr[c].pc = "idle"
    /\ mx[c] = {}
    /\ <<op, cbk>> \in LockedCalls
    /\ MutexFree(c, "thread")
    /\ mx' = [mx EXCEPT ![c] = {"thread"}]
    /\ lop' = [lop EXCEPT ![c] = [op |-> op, cb |-> cbk, log |-> <<>>]]
    /\ UNCHANGED <<besideLk, threadVars>>

\* thread::start() under its guard, up to the return or the first wait
LkStart(c, ready, created) ==
    /\ lop[c].op = "start"
    /\ mx[c] = {"thread"}
    /\ StartCall(c, 1, ready, created)

\* f_mutex.wait() of start() returns: the mutex is locked again
LkStartWake(c) ==
    /\ MutexFree(c, "thread")
    /\ StartWake(c, 1)

\* thread::stop(): the block under the guard
LkStop(c) ==
    /\ lop[c].op = "stop"
    /\ mx[c] = {"thread"}
    /\ StopCall(c, 1)

\* thread::is_stopping() under its guard
LkIsStopping(c) ==
    /\ lop[c].op = "is_stopping"
    /\ mx[c] = {"thread"}
    /\ cr[c].pc = "idle"
    /\ cr' = [cr EXCEPT ![c] = [NoCall EXCEPT !.pc = "ret",
                !.op = "is_stopping", !.obj = 1,
                !.ret = IF f_stopping[1] THEN "true" ELSE "false"]]
    /\ UNCHANGED <<besideLk, lkVars, flagVars, tpc, events, t_waiting, t_woken>>

\* the guard of start(), stop() or is_stopping() is destroyed: at the
\* return, or at the end of the first block of stop()
LkLeave(c) ==
    /\ mx[c] = {"thread"}
    /\ cr[c].pc \in {"ret", "join"}
    /\ mx' = [mx EXCEPT ![c] = {}]
    /\ UNCHANGED <<besideLk, lop, threadVars>>

\* (mutant) the callback is called without a look at what was called
LkCallback_again(c) ==
    /\ cr[c].pc = "join"
    /\ mx[c] = {}
    /\ lop[c].cb # "null"
    /\ Len(lop[c].log) < 2
    /\ lop' = [lop EXCEPT ![c].cb = "called",
                          ![c].log = Append(@, [arg |-> cr[c].obj,
                                         stopping |-> f_stopping[cr[c].obj],
                                         held |-> Holding(c)])]
    /\ UNCHANGED <<besideLk, mx, threadVars>>

\* thread::stop(): callback(this), when the callback is not null
LkCallback(c) ==
    /\ cr[c].pc = "join"
    /\ mx[c] = {}
    /\ lop[c].cb = "given"
    /\ lop' = [lop EXCEPT ![c].cb = "called",
                          ![c].log = Append(@, [arg |-> cr[c].obj,
                                         stopping |-> f_stopping[cr[c].obj],
                                         held |-> Holding(c)])]
    /\ UNCHANGED <<besideLk, mx, threadVars>>

\* thread::stop(): pthread_join() is called, after the callback if any
LkJoin(c) ==
    /\ mx[c] = {}
    /\ lop[c].cb # "given"
    /\ StopPthreadJoin(c, 1)

\* thread::stop(): pthread_join() returns once the OS thread has left its
\* last guard
LkJoined(c) ==
    /\ cr[c].pc = "joining"
    /\ mx[cr[c].tid] = {}
    /\ StopJoin(c, 1)

\* the rest of stop(), which runs without a guard
LkStopReset(c) == mx[c] = {} /\ StopReset(c, 1)

LkStopRethrow(c) == mx[c] = {} /\ StopRethrow(c, 1)

LkReturn(c) == mx[c] = {} /\ CallerReturn(c)

\* thread::internal_thread(): guard lock(f_mutex) of the first and of the
\* last block
LkChildLock(k) ==
    /\ tpc[k] \in {"first", "final"}
    /\ mx[k] = {}
    /\ MutexFree(k, "thread")
    /\ mx' = [mx EXCEPT ![k] = {"thread"}]
    /\ UNCHANGED <<besideLk, lop, threadVars>>

LkChildFirst(k) == mx[k] = {"thread"} /\ ChildFirst(k)

LkChildFinal(k) == mx[k] = {"thread"} /\ ChildFinal(k)

\* the guard of the first or of the last block is destroyed
LkChildUnlock(k) ==
    /\ tpc[k] \in {"enter", "exited"}
    /\ mx[k] = {"thread"}
    /\ mx' = [mx EXCEPT ![k] = {}]
    /\ UNCHANGED <<besideLk, lop, threadVars>>

\* internal_enter(), internal_run() and internal_leave() have no guard
LkChildEnter(k, throws) == mx[k] = {} /\ ChildEnter(k, throws)

LkRunnerRun(k) == mx[k] = {} /\ RunnerRun(k)

LkRunnerReturn(k) == mx[k] = {} /\ RunnerReturn(k)

LkRunnerThrow(k) == mx[k] = {} /\ RunnerThrow(k)

LkChildLeave(k, throws) == mx[k] = {} /\ ChildLeave(k, throws)

\* runner::continue_running() called from run(): guard lock(f_mutex) on the
\* mutex of the runner
LkContinueRunning(k) ==
    /\ tpc[k] = "body"
    /\ mx[k] = {}
    /\ MutexFree(k, "runner")
    /\ mx' = [mx EXCEPT ![k] = {"runner"}]
    /\ UNCHANGED <<besideLk, lop, threadVars>>

\* runner::continue_running(): f_thread is not null, f_thread->is_stopping()
\* is called: guard lock(f_mutex) on the mutex of the thread object
LkContinueIsStopping(k) ==
    /\ tpc[k] = "body"
    /\ mx[k] = {"runner"}
    /\ f_thread[f_runner[system_thread[k]]] # None
    /\ MutexFree(k, "thread")
    /\ mx' = [mx EXCEPT ![k] = {"runner", "thread"}]
    /\ UNCHANGED <<besideLk, lop, threadVars>>

\* f_stopping is read as true: continue_running() will return false and
\* run() returns
LkRunnerStopped(k) == mx[k] = {"runner", "thread"} /\ RunnerStopped(k)

\* is_stopping() and then continue_running() return: their guards are
\* destroyed
LkContinueReturn(k) ==
    /\ tpc[k] \in {"body", "leave_normal"}
    /\ mx[k] = {"runner", "thread"}
    /\ mx' = [mx EXCEPT ![k] = {}]
    /\ UNCHANGED <<besideLk, lop, threadVars>>

\* fifo::pop_front(v, 0) called from run(): guard lock(*this) on the fifo
LkPopFront(k) ==
    /\ tpc[k] = "body"
    /\ mx[k] = {}
    /\ MutexFree(k, "fifo")
    /\ mx' = [mx EXCEPT ![k] = {"fifo"}]
    /\ UNCHANGED <<besideLk, lop, threadVars>>

\* fifo::pop_front(): validate_item() calls valid_workload() on an item of
\* the queue: guard lock(f_mutex) on the mutex of the item
LkValidWorkload(k) ==
    /\ tpc[k] = "body"
    /\ mx[k] = {"fifo"}
    /\ f_queue # <<>>
    /\ MutexFree(k, "item")
    /\ mx' = [mx EXCEPT ![k] = {"fifo", "item"}]
    /\ UNCHANGED <<besideLk, lop, threadVars>>

\* fifo::pop_front(v, 0): the scan of the queue ends and the call returns,
\* with the item in v when it returns true; the guards are destroyed
LkPopped(k) ==
    /\ tpc[k] = "body"
    /\ mx[k] = IF f_queue = <<>> THEN {"fifo"} ELSE {"fifo", "item"}
    /\ pop_front(k, 0)
    /\ f_workload' = [f_workload EXCEPT ![k] =
                        IF pop_outcome(0) = "true" THEN pop_item ELSE @]
    /\ mx' = [mx EXCEPT ![k] = {}]
    /\ UNCHANGED <<itemType, validated, icall, lockVars, ioVars, lop, objVars,
                   f_ready, held, cl, f_working, out_queue, ppc, histVars,
                   threadVars>>

\* thread object 1 on runner 1, and a fifo with item 1, which depends on
\* item 2, and item 2
InitLocks ==
    /\ itemType = "iwp"
    /\ f_queue = <<1, 2>>
    /\ f_done = FALSE
    /\ f_broadcast = FALSE
    /\ broadcasts = 0
    /\ f_waiting = {}
    /\ f_woken = {}
    /\ f_ready = [i \in Items |-> TRUE]
    /\ f_dependencies = [i \in Items |-> IF i = 1 THEN {2} ELSE {}]
    /\ f_processing = [i \in Items |-> FALSE]
    /\ held = {}
    /\ cl = [c \in Clients |-> Idle]
    /\ InitNoPool
    /\ InitNoThread
    /\ f_runner = [t \in Workers |-> IF t = 1 THEN 1 ELSE None]
    /\ f_thread = [r \in Runners |-> IF r = 1 THEN 1 ELSE None]
    /\ InitSolo
    /\ InitWired

NextLocks ==
    \/ \E op \in {"start", "stop", "is_stopping"}, cbk \in {"null", "given"} :
            LkEnter(Owner, op, cbk)
    \/ \E ready, created \in BOOLEAN : LkStart(Owner, ready, created)
    \/ LkStartWake(Owner)
    \/ StartSpurious(Owner)
    \/ LkStop(Owner)
    \/ LkIsStopping(Owner)
    \/ LkLeave(Owner)
    \/ LkCallback(Owner)
    \/ LkJoin(Owner)
    \/ LkJoined(Owner)
    \/ LkStopReset(Owner)
    \/ LkStopRethrow(Owner)
    \/ LkReturn(Owner)
    \/ \E k \in Workers : LkChildLock(k)
    \/ \E k \in Workers : LkChildFirst(k)
    \/ \E k \in Workers : LkChildFinal(k)
    \/ \E k \in Workers : LkChildUnlock(k)
    \/ \E k \in Workers, throws \in BOOLEAN : LkChildEnter(k, throws)
    \/ \E k \in Workers : LkRunnerRun(k)
    \/ \E k \in Workers : LkRunnerReturn(k)
    \/ \E k \in Workers : LkRunnerThrow(k)
    \/ \E k \in Workers, throws \in BOOLEAN : LkChildLeave(k, throws)
    \/ \E k \in Workers : LkContinueRunning(k)
    \/ \E k \in Workers : LkContinueIsStopping(k)
    \/ \E k \in Workers : LkRunnerStopped(k)
    \/ \E k \in Workers : LkContinueReturn(k)
    \/ \E k \in Workers : LkPopFront(k)
    \/ \E k \in Workers : LkValidWorkload(k)
    \/ \E k \in Workers : LkPopped(k)

SpecLocks == InitLocks /\ [][NextLocks]_vars

\* ------------------------------------------ fifo of items with dependencies
\* The setting of the two item_with_predicate tests: the items are created
\* and pushed, the dependencies are added, the producer resets its pointers,
\* then consumers call pop_front(v, 0).
RefItems == 1..10

\* dependencies of the second test, by position of insertion
RefDependencies ==
    <<{6}, {1, 4}, {8}, {9, 10}, {7, 1}, {}, {3}, {6}, {6}, {9, 5}>>

\* the order the second test requires of the pops
RefOrder == <<6, 1, 8, 3, 7, 5, 9, 10, 4, 2>>

\* the dependencies the tests build have no cycle
\* (the items of S which depend on no item of S can be taken away, until
\* none is left)
RECURSIVE Peels(_, _)
Peels(deps, S) ==
    LET free == {i \in S : deps[i] \cap S = {}}
    IN  S = {} \/ (free # {} /\ Peels(deps, S \ free))

Acyclic(deps) == Peels(deps, DOMAIN deps)

Orders == {q \in [1..NItems -> Items] : \A j, k \in 1..NItems : q[j] = q[k] => j = k}

InitDagFifo ==
    /\ f_done = FALSE
    /\ f_broadcast = FALSE
    /\ broadcasts = 0
    /\ f_waiting = {}
    /\ f_woken = {}
    /\ held = {}
    /\ cl = [c \in Clients |-> Idle]

InitDagAny ==
    /\ f_queue \in Orders
    /\ f_dependencies \in {d \in [Items -> SUBSET Items] : Acyclic(d)}
    /\ f_ready = [i \in Items |-> TRUE]
    /\ f_processing = [i \in Items |-> FALSE]

InitDagRef ==
    /\ f_queue = <<1, 2, 3, 4, 5, 6, 7, 8, 9, 10>>
    /\ f_dependencies = RefDependencies
    /\ f_ready = [i \in RefItems |-> TRUE]
    /\ f_processing = [i \in RefItems |-> FALSE]

InitDag ==
    /\ itemType = "iwp"
    /\ InitDagFifo
    /\ InitDagAny \/ InitDagRef
    /\ InitNoPool
    /\ InitNoThread
    /\ InitDetached
    /\ InitSolo
    /\ InitWired

NextDag ==
    \/ \E c \in Clients : ClientPop(c, 0)
    \/ \E c \in Clients : ClientPopAgain(c)
    \/ \E c \in Clients : ClientReturn(c)

SpecDag == InitDag /\ [][NextDag]_vars

\* ------------------------------------------- item with predicate on its own
\* The owner of the items calls add_dependency(), add_dependencies() and
\* valid_workload() on the items it holds, in any order, and resets its
\* pointers one by one.  Each method holds the item's mutex from its first
\* statement to its last: one step each.
item_call(op, i, r) ==
    icall' = [op |-> op, item |-> i, ret |-> r, turn |-> 1 - icall.turn]

\* (mutant) the dependencies are added without a look at f_processing
add_to_dependencies_always(op, i, S) ==
    /\ i \in held
    /\ S \subseteq held
    /\ f_dependencies' = [f_dependencies EXCEPT ![i] = @ \cup S]
    /\ item_call(op, i, "ok")
    /\ UNCHANGED <<itemType, validated, lockVars, ioVars, lkVars, objVars, fifoVars,
                   f_ready, f_processing, held, cl, poolVars, threadVars>>

\* the body add_dependency() and add_dependencies() share: the test of
\* f_processing, then the insertion
add_to_dependencies(op, i, S) ==
    /\ i \in held
    /\ S \subseteq held
    /\ IF f_processing[i]
       THEN /\ item_call(op, i, "in_use_error")
            /\ UNCHANGED f_dependencies
       ELSE /\ f_dependencies' = [f_dependencies EXCEPT ![i] = @ \cup S]
            /\ item_call(op, i, "ok")
    /\ UNCHANGED <<itemType, validated, lockVars, ioVars, lkVars, objVars, fifoVars,
                   f_ready, f_processing, held, cl, poolVars, threadVars>>

\* item_with_predicate::add_dependency()
add_dependency(i, j) == add_to_dependencies("add_dependency", i, {j})

\* item_with_predicate::add_dependencies()
add_dependencies(i, S) == add_to_dependencies("add_dependencies", i, S)

\* item_with_predicate::valid_workload()
valid_workload(i) ==
    /\ i \in held
    /\ f_dependencies' = validate_deps(i, f_dependencies)
    /\ f_processing' = validate_proc(i, f_dependencies, f_processing)
    /\ item_call("valid_workload", i, validate_item(i, f_dependencies))
    /\ validated' = IF validate_item(i, f_dependencies)
                    THEN validated \cup {i} ELSE validated
    /\ UNCHANGED <<itemType, lockVars, ioVars, lkVars, objVars, fifoVars, f_ready, held,
                   cl, poolVars, threadVars>>

\* the owner resets its pointer to item i: the weak pointers to i expire
reset(i) ==
    /\ i \in held
    /\ held' = held \ {i}
    /\ UNCHANGED <<itemType, soloVars, objVars, fifoVars, itemVars, cl, poolVars,
                   threadVars>>

InitItem ==
    /\ itemType = "iwp"
    /\ InitFifo
    /\ f_ready = [i \in Items |-> TRUE]
    /\ f_dependencies = [i \in Items |-> {}]
    /\ f_processing = [i \in Items |-> FALSE]
    /\ held = Items
    /\ cl = [c \in Clients |-> Idle]
    /\ InitSolo
    /\ InitWired
    /\ InitNoPool
    /\ InitNoThread
    /\ InitDetached

NextItem ==
    \/ \E i \in Items, j \in Items : add_dependency(i, j)
    \/ \E i \in Items, S \in SUBSET Items : add_dependencies(i, S)
    \/ \E i \in Items : valid_workload(i)
    \/ \E i \in Items : reset(i)

SpecItem == InitItem /\ [][NextItem]_vars

\* ------------------------------------------------------ mutex and guard
\* The threads lock and unlock one mutex, directly or through a guard each.
\* pthread_mutex_lock() on the recursive mutex returns when the mutex is
\* free or held by the caller: a thread which has to wait takes no step.
\* the rest of the state, which no mutex or guard call touches
beside == <<itemType, validated, icall, ioVars, lkVars, objVars, fifoVars, itemVars, held, cl,
            poolVars, threadVars>>

mutex_call(c, op, r) ==
    mcall' = [thread |-> c, op |-> op, ret |-> r, turn |-> 1 - mcall.turn]

pthread_mutex_free(c) == m_owner \in {None, c}

\* pthread_mutex_lock() / pthread_mutex_trylock() returning 0
pthread_mutex_lock(c) ==
    /\ m_owner' = c
    /\ m_level' = m_level + 1

\* pthread_mutex_unlock(): 0, or EPERM when c does not hold the mutex
pthread_mutex_unlock(c) ==
    IF m_owner = c
    THEN /\ m_level' = m_level - 1
         /\ m_owner' = IF m_level = 1 THEN None ELSE c
    ELSE UNCHANGED <<m_owner, m_level>>

\* mutex::lock(), on the mutex variables; f_reference_count is a uint32_t,
\* which the MaxDepth levels of each thread and its guard cannot overflow
lock(c) ==
    /\ pthread_mutex_free(c)
    /\ pthread_mutex_lock(c)
    /\ f_reference_count' = f_reference_count + 1

\* (mutant) the counter is decremented before the test
unlock_unchecked(c) ==
    /\ f_reference_count' = f_reference_count - 1
    /\ pthread_mutex_unlock(c)

\* mutex::unlock(), on the mutex variables
unlock(c) ==
    IF f_reference_count <= 0
    THEN UNCHANGED mutexVars
    ELSE /\ f_reference_count' = f_reference_count - 1
         /\ pthread_mutex_unlock(c)

\* what mutex::unlock() returns with or throws
unlock_result(c) ==
    IF f_reference_count <= 0 THEN "not_locked_error"
    ELSE IF m_owner = c THEN "ok" ELSE "invalid_error"

\* a thread calls lock()
MutexLock(c) ==
    /\ raw[c] < MaxDepth
    /\ lock(c)
    /\ mutex_call(c, "lock", "ok")
    /\ raw' = [raw EXCEPT ![c] = @ + 1]
    /\ UNCHANGED <<beside, guardVars, g_done>>

\* (mutant) the counter is incremented on EBUSY too
MutexTryLock_counts(c) ==
    /\ raw[c] < MaxDepth
    /\ IF pthread_mutex_free(c)
       THEN /\ pthread_mutex_lock(c)
            /\ f_reference_count' = f_reference_count + 1
            /\ mutex_call(c, "try_lock", "true")
            /\ raw' = [raw EXCEPT ![c] = @ + 1]
       ELSE /\ mutex_call(c, "try_lock", "false")
            /\ f_reference_count' = f_reference_count + 1
            /\ UNCHANGED <<m_owner, m_level, raw>>
    /\ UNCHANGED <<beside, guardVars, g_done>>

\* a thread calls try_lock(): EBUSY when another thread holds the mutex
MutexTryLock(c) ==
    /\ raw[c] < MaxDepth
    /\ IF pthread_mutex_free(c)
       THEN /\ pthread_mutex_lock(c)
            /\ f_reference_count' = f_reference_count + 1
            /\ mutex_call(c, "try_lock", "true")
            /\ raw' = [raw EXCEPT ![c] = @ + 1]
       ELSE /\ mutex_call(c, "try_lock", "false")
            /\ UNCHANGED <<mutexVars, raw>>
    /\ UNCHANGED <<beside, guardVars, g_done>>

\* a thread calls unlock(): for a lock() or try_lock() of its own, or one
\* time too many when nobody holds the mutex
MutexUnlock(c) ==
    /\ raw[c] > 0 \/ f_reference_count = 0
    /\ unlock(c)
    /\ mutex_call(c, "unlock", unlock_result(c))
    /\ raw' = [raw EXCEPT ![c] = IF unlock_result(c) = "ok" THEN @ - 1 ELSE @]
    /\ UNCHANGED <<beside, guardVars, g_done>>

\* guard::guard(m): the constructor returns with the mutex locked
GuardNew(c) ==
    /\ ~g_alive[c]
    /\ lock(c)
    /\ g_alive' = [g_alive EXCEPT ![c] = TRUE]
    /\ g_mutex' = [g_mutex EXCEPT ![c] = TRUE]
    /\ g_locked' = [g_locked EXCEPT ![c] = TRUE]
    /\ g_done' = [g_done EXCEPT ![c] = FALSE]
    /\ mutex_call(c, "guard", "ok")
    /\ UNCHANGED <<beside, raw>>

\* guard::unlock(done), on the guard and the mutex
guard_unlock(c, dn) ==
    IF g_locked[c]
    THEN /\ g_locked' = [g_locked EXCEPT ![c] = FALSE]
         /\ g_mutex' = [g_mutex EXCEPT ![c] = @ /\ ~dn]
         /\ unlock(c)
    ELSE UNCHANGED <<mutexVars, g_mutex, g_locked>>

GuardUnlock(c, dn) ==
    /\ g_alive[c]
    /\ guard_unlock(c, dn)
    /\ g_done' = [g_done EXCEPT ![c] = @ \/ dn]
    /\ mutex_call(c, IF dn THEN "guard_unlock_done" ELSE "guard_unlock", "ok")
    /\ UNCHANGED <<beside, raw, g_alive>>

\* guard::lock(): nothing without a mutex; else the mutex is locked, and
\* unlocked again at once when the guard had it locked
GuardLock(c) ==
    /\ g_alive[c]
    /\ IF ~g_mutex[c]
       THEN UNCHANGED <<mutexVars, g_locked>>
       ELSE /\ pthread_mutex_free(c)
            /\ IF g_locked[c]
               THEN UNCHANGED <<mutexVars, g_locked>>
               ELSE /\ lock(c)
                    /\ g_locked' = [g_locked EXCEPT ![c] = TRUE]
    /\ mutex_call(c, "guard_lock", "ok")
    /\ UNCHANGED <<beside, raw, g_alive, g_mutex, g_done>>

\* guard::~guard(): unlock(), and the object is gone
GuardDelete(c) ==
    /\ g_alive[c]
    /\ IF g_locked[c] THEN unlock(c) ELSE UNCHANGED mutexVars
    /\ g_alive' = [g_alive EXCEPT ![c] = FALSE]
    /\ g_mutex' = [g_mutex EXCEPT ![c] = FALSE]
    /\ g_locked' = [g_locked EXCEPT ![c] = FALSE]
    /\ g_done' = [g_done EXCEPT ![c] = FALSE]
    /\ mutex_call(c, "guard_delete", "ok")
    /\ UNCHANGED <<beside, raw>>

InitMutexOnly ==
    /\ itemType = "plain"
    /\ InitFifo
    /\ InitItems
    /\ cl = [c \in Clients |-> Idle]
    /\ InitSolo
    /\ InitWired
    /\ InitNoPool
    /\ InitNoThread
    /\ InitDetached

NextMutex ==
    \/ \E c \in Clients : MutexLock(c)
    \/ \E c \in Clients : MutexTryLock(c)
    \/ \E c \in Clients : MutexUnlock(c)
    \/ \E c \in Clients : GuardNew(c)
    \/ \E c \in Clients, d \in BOOLEAN : GuardUnlock(c, d)
    \/ \E c \in Clients : GuardLock(c)
    \/ \E c \in Clients : GuardDelete(c)

SpecMutex == InitMutexOnly /\ [][NextMutex]_vars

\* ------------------------------------------- mutex with its condition
\* The threads also wait on the condition of the mutex and signal it, and a
\* thread may call unlock() on a mutex another thread holds.

\* the rest of the state, which no call on the mutex or its condition
\* touches
besideCond == <<itemType, validated, icall, ioVars, lkVars, objVars, f_queue, f_done,
                f_broadcast, broadcasts, itemVars, held, cl, poolVars,
                threadVars>>

\* the thread is not suspended in wait() or timed_wait()
Awake(c) == c \notin f_waiting \cup f_woken

\* mutex::wait() / mutex::timed_wait() called by the thread that holds the
\* mutex at one level: pthread_cond_wait() releases the pthread mutex and
\* suspends the caller; f_reference_count is not touched
MutexWait(c) ==
    /\ Awake(c)
    /\ m_owner = c
    /\ m_level = 1
    /\ m_owner' = None
    /\ m_level' = 0
    /\ f_waiting' = f_waiting \cup {c}
    /\ mutex_call(c, "wait", "suspended")
    /\ UNCHANGED <<besideCond, f_reference_count, f_woken, raw, guardVars, g_done>>

\* mutex::signal() called by a thread
MutexSignal(c) ==
    /\ Awake(c)
    /\ signal
    /\ mutex_call(c, "signal", "ok")
    /\ UNCHANGED <<besideCond, mutexVars, raw, guardVars, g_done>>

\* pthread_cond_wait() / pthread_cond_timedwait() returns 0: the thread was
\* released by a signal and has the pthread mutex again
MutexWoken(c) ==
    /\ c \in f_woken
    /\ m_owner = None
    /\ pthread_mutex_lock(c)
    /\ f_woken' = f_woken \ {c}
    /\ mutex_call(c, "wait", "true")
    /\ UNCHANGED <<besideCond, f_reference_count, f_waiting, raw, guardVars, g_done>>

\* pthread_cond_timedwait() returns ETIMEDOUT, with the pthread mutex:
\* timed_wait() returns false
MutexTimedOut(c) ==
    /\ c \in f_waiting
    /\ m_owner = None
    /\ pthread_mutex_lock(c)
    /\ f_waiting' = f_waiting \ {c}
    /\ mutex_call(c, "timed_wait", "false")
    /\ UNCHANGED <<besideCond, f_reference_count, f_woken, raw, guardVars, g_done>>

\* a thread calls unlock() on a mutex another thread holds
MutexUnlockForeign(c) ==
    /\ Awake(c)
    /\ m_owner \notin {None, c}
    /\ unlock(c)
    /\ mutex_call(c, "unlock", unlock_result(c))
    /\ UNCHANGED <<beside, raw, guardVars, g_done>>

\* the calls of a thread which is not suspended
CondLock(c) == Awake(c) /\ MutexLock(c)

CondTryLock(c) == Awake(c) /\ MutexTryLock(c)

CondUnlock(c) == Awake(c) /\ MutexUnlock(c)

NextCond ==
    \/ \E c \in Clients : CondLock(c)
    \/ \E c \in Clients : CondTryLock(c)
    \/ \E c \in Clients : CondUnlock(c)
    \/ \E c \in Clients : MutexUnlockForeign(c)
    \/ \E c \in Clients : MutexWait(c)
    \/ \E c \in Clients : MutexSignal(c)
    \/ \E c \in Clients : MutexWoken(c)
    \/ \E c \in Clients : MutexTimedOut(c)

SpecCond == InitMutexOnly /\ [][NextCond]_vars

\* ---------------------------------------------------------------- claims
\* c has just returned from pop_front() with the given result
PopReturned(c, r) ==
    cl[c].pc = "ret" /\ cl[c].op = "pop_front" /\ cl[c].ret = r

\* c is inside pop_front(v, -1), suspended or about to look again
Blocked(c) == cl[c].pc = "pop" /\ cl[c].arg = -1

\* the item's predicate is true
IsReady(i) ==
    CASE itemType = "plain" -> TRUE
      [] itemType = "own" -> f_ready[i]
      [] itemType = "iwp" -> f_dependencies[i] \cap Live = {}

\* i is the earliest-inserted queued item whose predicate is true
FirstReady(i) ==
    \E k \in 1..Len(f_queue) :
        /\ f_queue[k] = i
        /\ IsReady(i)
        /\ \A j \in 1..(k - 1) : ~IsReady(f_queue[j])

\* C1: pop_front removes and returns the earliest-inserted queued item whose
\* predicate is true and leaves the other items in their relative order; when
\* the head of the queue is ready (always so without predicate) the head is
\* returned, so the order of the pops is the order of the pushes.
C1_PopFirstReady ==
    [][\A c \in Clients :
        (~PopReturned(c, TRUE) /\ PopReturned(c, TRUE)') =>
            \E k \in 1..Len(f_queue) :
                /\ IsReady(f_queue[k])
                /\ \A j \in 1..(k - 1) : ~IsReady(f_queue[j])
                /\ cl'[c].out = f_queue[k]
                /\ Len(f_queue') = Len(f_queue) - 1
                /\ \A j \in 1..Len(f_queue') :
                        f_queue'[j] = IF j < k THEN f_queue[j] ELSE f_queue[j + 1]
                /\ (itemType = "plain" =>
                        cl'[c].out = Head(f_queue) /\ f_queue' = Tail(f_queue))
      ]_vars

\* an item was returned from behind an item that is not ready, which stays
\* at the head of the two items left
C1_Witness ==
    \E c \in Clients :
        /\ PopReturned(c, TRUE)
        /\ itemType = "own"
        /\ Len(f_queue) = 2
        /\ ~f_ready[f_queue[1]]
        /\ f_ready[cl[c].out]

C6_StopDrains ==
    (ppc.pc = "waited" /\ ~ppc.imm) => \A i \in pushed : worked[i] >= 1

\* C7: stop(immediate) followed by wait() terminates: every worker leaves
\* run() and is joined.
C7_WaitTerminates ==
    (ppc.pc = "join") ~> (ppc.pc = "waited")

\* C8: once the producer has dropped its references, every queued item with
\* predicate is eventually passed to do_work() (unless a stop is requested).
C8_DependentsDispatched ==
    \A i \in Items :
        (i \in Range(f_queue) /\ held = {})
            ~> (worked[i] >= 1 \/ ppc.pc # "run")

StartReturned(c) ==
    cr[c].pc = "ret" /\ cr[c].op = "start" /\ cr[c].ret = "true"

\* C9: every call of start() that launched the OS thread returns true in
\* the end, whatever the other threads call in the meantime, stop()
\* included; and start() returns true only once the child has run its
\* first critical section (f_started set by the child launched last).
C9_StartReturns ==
    /\ [][\A c \in Callers :
            (StartReturned(c)' /\ ~StartReturned(c))
                => (f_started[1] /\ f_thread_id[1] # THREAD_UNDEFINED
                    /\ tpc[f_thread_id[1]] # "first")]_vars
    /\ \A c \in Callers : (cr[c].pc = "start_wait") ~> StartReturned(c)

LeaveEvents ==
    {"leave_normal", "leave_initialization_failed", "leave_thread_failed"}

\* the calls of the runner made by one OS thread that reached leave()
WholeRuns ==
    { <<"enter", "run", "leave_normal">>,
      <<"enter_throws", "leave_initialization_failed">>,
      <<"enter", "run", "run_throws", "leave_thread_failed">> }

\* the calls in e, whether or not leave() threw
called(e) ==
    IF e # <<>> /\ e[Len(e)] = "leave_throws" THEN SubSeq(e, 1, Len(e) - 1)
    ELSE e

\* C10: in each OS thread leave() is called once, last, after enter() and
\* after run() if run() was called; the status is normal when enter() and
\* run() returned, initialization-failed when enter() threw (run() is then
\* not called) and thread-failed when run() threw. A thread that reached
\* its last critical section has called leave().
C10_LeaveOnce ==
    \A t \in Workers :
        LET e == events[t]
            n == Cardinality({k \in 1..Len(e) : e[k] \in LeaveEvents})
        IN  /\ n <= 1
            /\ (n = 1 => called(e) \in WholeRuns)
            /\ (tpc[t] \in {"final", "exited"} => n = 1)
            /\ \A c \in Callers :
                    (StartReturned(c) /\ tpc[t] = "none" /\ t = f_thread_id[1])
                        => n = 1

C10_Witness ==
    /\ tpc[1] = "exited"
    /\ events[1] = <<"enter", "run", "run_throws", "leave_thread_failed">>
    /\ \E c \in Callers : StartReturned(c)
\* the OS threads created with thread object t that were not joined
unjoined(t) == {k \in Workers : tpc[k] # "none" /\ system_thread[k] = t}

\* C14: whatever start() and stop() calls the threads make on one thread
\* object, at most one OS thread created by it and not yet joined exists at
\* any instant.
C14_OneOSThread ==
    \A t \in Workers : Cardinality(unjoined(t)) <= 1

\* the first standard exception thrown by the runner in the OS thread whose
\* calls are e
Thrown(e) ==
    IF "enter_throws" \in Range(e) THEN "enter"
    ELSE IF "run_throws" \in Range(e) THEN "run"
    ELSE IF "leave_throws" \in Range(e) THEN "leave"
    ELSE NoException

\* C11: the stop() that joins an OS thread in which enter(), run() or
\* leave() threw a standard exception throws that exception to its caller
\* and empties f_exception; a stop() that joined a thread in which nothing
\* threw, or that has nothing to join, throws nothing; and once the thread
\* is joined get_exception() returns null.
C11_StopRethrows ==
    /\ [][\A c \in Callers :
            /\ (cr[c].pc = "rethrow" /\ cr'[c].pc = "ret") =>
                    /\ cr'[c].ret = (IF Thrown(events[cr[c].tid]) # NoException
                                     THEN Thrown(events[cr[c].tid])
                                     ELSE "void")
                    /\ f_exception'[cr[c].obj] = NoException
            /\ (cr[c].pc = "idle" /\ cr'[c].pc = "ret"
                    /\ cr'[c].op \in {"stop", "delete"}) =>
                    cr'[c].ret = "void" /\ f_exception' = f_exception
         ]_vars
    /\ [](\A t \in Workers :
            (~f_running[t] /\ ~f_started[t]
                /\ \A c \in Callers : cr[c].pc \in {"idle", "ret"})
                    => f_exception[t] = NoException)

\* stop() has thrown the exception of leave() and the slot is empty
C11_Witness ==
    \E c \in Callers :
        /\ cr[c].pc = "ret" /\ cr[c].op = "stop" /\ cr[c].ret = "leave"
        /\ f_exception[cr[c].obj] = NoException
        /\ ~f_running[cr[c].obj] /\ ~f_started[cr[c].obj]

\* c has returned from a stop() or a ~thread() that had an OS thread to join
StopJoined(c) ==
    /\ cr[c].pc = "ret"
    /\ cr[c].op \in {"stop", "delete"}
    /\ cr[c].tid # THREAD_UNDEFINED

\* C12: when stop() returns on a started thread, by a return or by throwing
\* the exception of the child, the OS thread has run its trampoline to the
\* end (leave() was called, the last critical section has run, the thread
\* is joined) and f_running, f_started and f_stopping are false.
C12_StopPostcondition ==
    \A c \in Callers :
        StopJoined(c) =>
            /\ tpc[cr[c].tid] = "none"
            /\ \E k \in 1..Len(events[cr[c].tid]) :
                    events[cr[c].tid][k] \in LeaveEvents
            /\ f_tid[cr[c].obj] = PID_UNDEFINED
            /\ ~f_running[cr[c].obj]
            /\ ~f_started[cr[c].obj]
            /\ ~f_stopping[cr[c].obj]

\* stop() has thrown the exception of run() after the join
C12_Witness ==
    \E c \in Callers :
        /\ StopJoined(c)
        /\ cr[c].op = "stop"
        /\ cr[c].ret = "run"
        /\ events[cr[c].tid] =
                <<"enter", "run", "run_throws", "leave_thread_failed">>

\* C13: stop() on a thread object that was never started, or whose OS
\* thread was joined by an earlier stop(), returns from its critical
\* section: it joins nothing, throws nothing and changes no flag.
C13_StopIdempotent ==
    [][\A c \in Callers, t \in Workers :
        (cr[c].pc = "idle" /\ cr'[c].op = "stop" /\ cr'[c].obj = t
            /\ unjoined(t) = {}) =>
                /\ cr'[c].pc = "ret"
                /\ cr'[c].ret = "void"
                /\ cr'[c].tid = THREAD_UNDEFINED
                /\ UNCHANGED <<flagVars, tpc, events, osVars>>
      ]_vars

\* a stop() has returned at once on a thread whose OS thread had run and
\* had been joined
C13_Witness ==
    \E c \in Callers :
        /\ cr[c].pc = "ret" /\ cr[c].op = "stop"
        /\ cr[c].tid = THREAD_UNDEFINED
        /\ f_thread_id[cr[c].obj] # THREAD_UNDEFINED
        /\ events[f_thread_id[cr[c].obj]] # <<>>
        /\ system_thread[f_thread_id[cr[c].obj]] = cr[c].obj
        /\ unjoined(cr[c].obj) = {}

\* C15: when the thread is already running (f_running or f_started) or
\* is_ready() of the runner returns false, start() returns false, creates
\* no OS thread and leaves f_running, f_started, f_stopping and f_exception
\* as they are.
C15_StartRefused ==
    [][\A c \in Callers, t \in Workers :
        (cr[c].pc = "idle" /\ cr'[c].op = "start" /\ cr'[c].obj = t
            /\ (f_running[t] \/ f_started[t] \/ ~cr'[c].ready)) =>
                /\ cr'[c].pc = "ret"
                /\ cr'[c].ret = "false"
                /\ UNCHANGED <<flagVars, tpc, events, osVars>>
      ]_vars

\* start() has returned false on a thread whose runner is inside run()
C15_Witness ==
    \E c \in Callers :
        /\ cr[c].pc = "ret" /\ cr[c].op = "start" /\ cr[c].ret = "false"
        /\ cr[c].ready
        /\ f_running[cr[c].obj] /\ f_started[cr[c].obj]
        /\ tpc[f_thread_id[cr[c].obj]] = "body"

\* C16: continue_running() of a runner returns true when no thread is
\* attached and, when one is, as long as f_stopping is false; it returns
\* false from the moment stop() has set f_stopping until the join of stop()
\* completes; and it returns true again once start() has launched the next
\* OS thread.
C16_ContinueRunning ==
    \A r \in Runners :
        /\ f_thread[r] = None => continue_running(r)
        /\ f_thread[r] # None =>
                (continue_running(r) <=> ~f_stopping[f_thread[r]])
        /\ \A c \in Callers :
                (cr[c].op # "none" /\ cr[c].obj # None
                    /\ f_runner[cr[c].obj] = r /\ f_thread[r] = cr[c].obj) =>
                        /\ cr[c].pc \in {"join", "joining"}
                                => ~continue_running(r)
                        /\ (cr[c].pc = "start_wait" \/ StartReturned(c))
                                => continue_running(r)

\* stop() waits in pthread_join() while the runner is inside run(), to which
\* continue_running() returns false
C16_Witness ==
    \E c \in Callers :
        /\ cr[c].pc = "joining"
        /\ tpc[cr[c].tid] = "body"
        /\ f_thread[f_runner[cr[c].obj]] = cr[c].obj
        /\ ~continue_running(f_runner[cr[c].obj])

\* the thread objects constructed on runner r
attached(r) == {t \in Workers : f_runner[t] = r}

\* C17: a runner is attached to at most one thread object at any time, the
\* one runner::f_thread names; constructing a thread on a runner that is
\* attached fails with in_use_error and changes nothing, constructing one
\* on a runner that is not attached succeeds; destroying a thread detaches
\* its runner.
C17_OneThreadPerRunner ==
    /\ [](\A r \in Runners :
            /\ Cardinality(attached(r)) <= 1
            /\ \A t \in Workers : f_thread[r] = t <=> f_runner[t] = r)
    /\ [][\A c \in Callers :
            /\ (cr[c].pc = "idle" /\ cr'[c].op = "thread"
                    /\ cr'[c].runner # None) =>
                    IF f_thread[cr'[c].runner] # None
                    THEN /\ cr'[c].ret = "in_use_error"
                         /\ UNCHANGED <<attachVars, flagVars, osVars>>
                    ELSE /\ cr'[c].ret = "void"
                         /\ f_thread'[cr'[c].runner] = cr'[c].obj
                         /\ f_runner'[cr'[c].obj] = cr'[c].runner
            /\ (cr[c].pc = "ret" /\ cr[c].op = "delete"
                    /\ cr'[c].pc = "idle") =>
                    /\ f_thread'[f_runner[cr[c].obj]] = None
                    /\ f_runner'[cr[c].obj] = None
         ]_vars

\* a second thread was refused on a runner that is attached to a thread
\* which is running
C17_Witness ==
    \E c \in Callers :
        /\ cr[c].pc = "ret" /\ cr[c].op = "thread"
        /\ cr[c].ret = "in_use_error"
        /\ f_thread[cr[c].runner] \notin {None, cr[c].obj}
        /\ f_runner[cr[c].obj] = None
        /\ f_running[f_thread[cr[c].runner]]

\* C18: over any sequence of push_back, pop_front, clear and done calls on
\* one fifo, broadcast() is called at most once in total; two calls of
\* done(false) make at most one.
C18_BroadcastOnce == broadcasts <= 1

\* c goes through a call of pop_front(v, 0) in this step
PopCall(c) ==
    /\ cl[c].pc = "idle" \/ PopHolds(c)
    /\ cl'[c] # cl[c]
    /\ cl'[c].pc = "ret"
    /\ cl'[c].op = "pop_front"

\* the earliest-inserted item of the queue none of whose dependencies is in
\* the queue
EarliestReady ==
    LET ks == {k \in 1..Len(f_queue) :
                  f_dependencies[f_queue[k]] \cap Range(f_queue) = {}}
    IN  IF ks = {} THEN None
        ELSE f_queue[CHOOSE k \in ks : \A j \in ks : k <= j]

\* the queue holds the items of the second test, of which the first
\* RefPopped of RefOrder were popped
RefPopped == Len(RefOrder) - Len(f_queue)

RefSoFar ==
    /\ DOMAIN f_dependencies = RefItems
    /\ Range(f_queue) = RefItems \ {RefOrder[k] : k \in 1..RefPopped}

\* C19: once the items and their dependencies are in place and the producer
\* holds nothing, a pop_front(v, 0) called while no consumer holds a popped
\* item succeeds as long as the queue is not empty and returns the
\* earliest-inserted item whose dependencies were all popped; on the DAG of
\* the second test, after the first n of 6, 1, 8, 3, 7, 5, 9, 10, 4, 2 were
\* popped, such a pop returns the next of them.
C19_EarliestReady ==
    [][\A c \in Clients :
         (/\ PopCall(c)
          /\ held = {}
          /\ \A d \in Clients : cl[d].out = None
          /\ f_queue # <<>>)
         => /\ cl'[c].ret = TRUE
            /\ cl'[c].out = EarliestReady
            /\ Range(f_queue') = Range(f_queue) \ {EarliestReady}
            /\ RefSoFar => cl'[c].out = RefOrder[RefPopped + 1]]_vars

\* the ten items of the second test were popped, the last one being 2
C19_Witness ==
    /\ DOMAIN f_dependencies = RefItems
    /\ f_queue = <<>>
    /\ \E c \in Clients : PopReturned(c, TRUE) /\ cl[c].out = RefOrder[Len(RefOrder)]

\* the items in the queue or held by a consumer
Busy == (Range(f_queue) \cup {cl[d].out : d \in Clients}) \ {None}

\* C20: pop_front returns no item one of whose dependencies is in the queue
\* or held by a consumer, and pop_front(v, 0) returns false, leaving the
\* queue and v alone, when every item of the queue has such a dependency.
C20_NoLiveDependency ==
    [][\A c \in Clients :
         PopCall(c)
         => /\ f_queue' # f_queue
                  => /\ cl'[c].ret = TRUE
                     /\ f_dependencies[cl'[c].out] \cap Busy = {}
            /\ (\A k \in 1..Len(f_queue) :
                     f_dependencies[f_queue[k]] \cap Busy # {})
                  => /\ cl'[c].ret = FALSE
                     /\ f_queue' = f_queue
                     /\ cl'[c].out = cl[c].out]_vars

\* a pop_front(v, 0) returned false although no item of the queue depends on
\* an item of the queue: each depends on an item a consumer holds
C20_Witness ==
    /\ f_queue # <<>>
    /\ \E c \in Clients : PopReturned(c, FALSE)
    /\ \A k \in 1..Len(f_queue) :
          /\ f_dependencies[f_queue[k]] \cap Range(f_queue) = {}
          /\ f_dependencies[f_queue[k]] \cap {cl[d].out : d \in Clients} # {}

\* a call of op on item i is made in this step
ItemCalled(op, i) ==
    icall' # icall /\ icall'.op \in op /\ icall'.item = i

AddCalls == {"add_dependency", "add_dependencies"}

\* C21: on an item valid_workload() returned true for, valid_workload()
\* returns true again and add_dependency()/add_dependencies() fail with
\* in_use_error, the list of dependencies staying empty; on an item it never
\* returned true for, they succeed and the list receives the items given.
C21_ValidForEver ==
    [][\A i \in Items :
         /\ (ItemCalled({"valid_workload"}, i) /\ i \in validated)
               => icall'.ret = TRUE
         /\ (ItemCalled(AddCalls, i) /\ i \in validated)
               => /\ icall'.ret = "in_use_error"
                  /\ f_dependencies[i] = {}
                  /\ f_dependencies'[i] = {}
         /\ (ItemCalled(AddCalls, i) /\ i \notin validated)
               => /\ icall'.ret = "ok"
                  /\ f_dependencies[i] \subseteq f_dependencies'[i]
                  /\ f_dependencies'[i] # {} \/ icall'.op = "add_dependencies"]_vars

\* add_dependencies() was refused on an item valid_workload() had accepted
\* after its dependency was reset
C21_Witness ==
    /\ icall.op = "add_dependencies"
    /\ icall.ret = "in_use_error"
    /\ icall.item \in validated
    /\ held # Items

\* the clients which return from a call of op in this step
Returning(op) ==
    {c \in Clients : cl'[c] # cl[c] /\ cl'[c].pc = "ret" /\ cl'[c].op = op}

\* C22: size() is 0 after construction; a push_back which returns true adds
\* one to it, a pop_front which returns true takes one from it, clear() and
\* done(true) make it 0 and no other step changes it, so that in every state
\* it is the number of successful push_back less the number of successful
\* pop_front since the last of construction, clear() and done(true); and
\* empty() is true exactly when size() is 0.
C22_SizeCounts ==
    /\ size = 0 /\ empty
    /\ [][LET pushes == {c \in Returning("push_back") : cl'[c].ret}
              pops == {c \in Returning("pop_front") : cl'[c].ret}
              clears == Returning("clear")
                          \cup {c \in Returning("done") : cl'[c].arg = 1}
          IN  /\ size' = IF clears # {} THEN 0
                         ELSE size + Cardinality(pushes) - Cardinality(pops)
              /\ empty' <=> size' = 0]_vars

\* after two push_back and one pop_front which succeeded, size() is 1
C22_Witness ==
    /\ size = 1 /\ ~empty
    /\ \E c, d \in Clients :
          /\ PopReturned(c, TRUE)
          /\ cl[d].pc = "ret" /\ cl[d].op = "push_back" /\ cl[d].ret
          /\ cl[d].arg \in Range(f_queue)

\* C23: a step of a pop_front call which does not return an item, and so
\* every call which returns false (nothing ready and timeout 0, timeout
\* expired, fifo done), leaves the caller's v and the queue as they were; and
\* no caller of pop_front(v, 0) is ever suspended.
C23_FalseLeavesAll ==
    [][\A c \in Clients :
         /\ (/\ cl'[c] # cl[c]
             /\ cl'[c].op = "pop_front"
             /\ ~(cl'[c].pc = "ret" /\ cl'[c].ret))
               => /\ f_queue' = f_queue
                  /\ cl'[c].out = cl[c].out
         /\ cl'[c].pc = "pop" => cl'[c].arg # 0]_vars

\* pop_front(v, 0) on a queue with an item which is not ready returned false
\* to a caller whose v holds the item of its call before
C23_Witness ==
    \E c \in Clients :
        /\ PopReturned(c, FALSE)
        /\ cl[c].arg = 0
        /\ cl[c].out # None
        /\ f_queue # <<>>

\* no item of the queue passes validate_item()
NothingReady == \A k \in 1..Len(f_queue) : ~IsReady(f_queue[k])

\* C24: pop_front(v, usecs) with usecs < 0, on a fifo which is not done and
\* has no ready item, suspends the caller.
C24_NegativeWaits ==
    [][\A c \in Clients :
         (/\ cl[c].pc = "idle"
          /\ cl'[c].op = "pop_front"
          /\ cl'[c].arg < 0
          /\ NothingReady
          /\ ~f_done)
         => cl'[c].pc = "pop"]_vars

\* thread c makes a call of op on the mutex in this step
MutexCalled(c, op) ==
    mcall' # mcall /\ mcall'.thread = c /\ mcall'.op = op

RECURSIVE Sum(_, _)
Sum(f, S) ==
    IF S = {} THEN 0
    ELSE LET x == CHOOSE x \in S : TRUE IN f[x] + Sum(f, S \ {x})

\* the levels of the mutex the guards account for
guarded == [c \in Clients |-> IF g_alive[c] /\ g_locked[c] THEN 1 ELSE 0]

\* C25: the lock depth is never negative; it is the number of lock() and
\* try_lock() calls which succeeded and were not yet matched by an unlock(),
\* so 0 when all are matched; a lock() or a try_lock() which returns true
\* adds one to it, an unlock() which succeeds takes one from it, a try_lock()
\* which returns false leaves it as it is.
C25_DepthCounts ==
    /\ [](/\ f_reference_count >= 0
          /\ f_reference_count = Sum(raw, Clients) + Sum(guarded, Clients))
    /\ [][\A c \in Clients :
            /\ MutexCalled(c, "lock")
                  => f_reference_count' = f_reference_count + 1
            /\ (MutexCalled(c, "try_lock") /\ mcall'.ret = "true")
                  => f_reference_count' = f_reference_count + 1
            /\ (MutexCalled(c, "try_lock") /\ mcall'.ret = "false")
                  => f_reference_count' = f_reference_count
            /\ (MutexCalled(c, "unlock") /\ mcall'.ret = "ok")
                  => f_reference_count' = f_reference_count - 1]_vars

\* a thread got false from try_lock() while another held two levels, and
\* the depth is still 2
C25_Witness ==
    /\ mcall.op = "try_lock" /\ mcall.ret = "false"
    /\ f_reference_count = 2
    /\ \E c \in Clients : raw[c] = 2 /\ mcall.thread # c

\* C26: unlock() called at depth 0 throws not_locked_error and leaves the
\* depth at 0 and the pthread mutex as it is.
C26_UnlockNotLocked ==
    [][\A c \in Clients :
         (MutexCalled(c, "unlock") /\ f_reference_count = 0)
         => /\ mcall'.ret = "not_locked_error"
            /\ f_reference_count' = 0
            /\ m_owner' = m_owner
            /\ m_level' = m_level]_vars

\* unlock() threw not_locked_error on the mutex nobody holds
C26_Witness ==
    /\ mcall.op = "unlock" /\ mcall.ret = "not_locked_error"
    /\ f_reference_count = 0
    /\ m_owner = None

\* the levels of the pthread mutex thread c holds
levels(c) == IF m_owner = c THEN m_level ELSE 0

\* C27: the mutex is held by the thread of a guard one level more than by
\* the thread's own lock() calls while the guard's f_locked is true, and
\* no level more while it is false or the guard is destroyed, so that the
\* destruction leaves the depth the thread had before the construction; and
\* lock() on a guard unlock(true) was called on changes neither the mutex
\* nor the guard.
C27_GuardOneLevel ==
    /\ [](\A c \in Clients : levels(c) = raw[c] + guarded[c])
    /\ [][\A c \in Clients :
            /\ (MutexCalled(c, "guard_lock") /\ g_done[c])
                  => UNCHANGED <<mutexVars, guardVars>>
            /\ MutexCalled(c, "guard_delete")
                  => /\ f_reference_count' = f_reference_count - guarded[c]
                     /\ levels(c)' = raw[c]]_vars

\* worker w comes back from do_work() in this step
DidWork(w) == tpc[w] = "work" /\ tpc'[w] # "work"

\* C28: with an output fifo, do_work() is called at most once on an item;
\* the step in which it returns true appends the workload to the output
\* fifo, once; the step in which it returns false leaves the output fifo
\* alone; and nothing else brings an item to the output fifo.
C28_ForwardOnTrue ==
    /\ [](\A i \in Items : worked[i] <= 1)
    /\ [][/\ \A w \in Workers :
              (DidWork(w) /\ f_out[w] # None)
              => LET i == f_workload[w] IN
                 /\ worked'[i] = worked[i] + 1
                 /\ IF i \in refused'
                    THEN out_queue' = out_queue /\ arrived'[i] = 0
                    ELSE out_queue' = Append(out_queue, i) /\ arrived'[i] = 1
          /\ \A i \in Items :
              arrived'[i] # arrived[i]
              => \E w \in Workers :
                    DidWork(w) /\ f_workload[w] = i /\ i \notin refused'
          /\ ~(\E w \in Workers : DidWork(w))
              => out_queue' = out_queue \/ out_queue' = Tail(out_queue)]_vars

\* do_work() returned false for one item and true for another: the second
\* only is in the output fifo
C28_Witness ==
    \E i, j \in Jobs :
        /\ worked[i] = 1 /\ i \in refused /\ arrived[i] = 0
        /\ worked[j] = 1 /\ j \notin refused /\ arrived[j] = 1
        /\ out_queue = <<j>>

\* C29: a worker with an input fifo and no output fifo whose do_work()
\* returns true drops the workload and goes on: it is back at the top of its
\* loop, not working, the output fifo untouched.
C29_NullOutDrops ==
    [][\A w \in Workers :
         (/\ DidWork(w)
          /\ f_in[w] # None
          /\ f_out[w] = None
          /\ f_workload[w] \notin refused')
         => /\ tpc'[w] = "loop"
            /\ ~f_working'[w]
            /\ out_queue' = out_queue]_vars

\* C30: no worker has a null input fifo: the construction with a null
\* input fifo fails, no worker object and no thread come of it.
C30_NoNullInput ==
    \A w \in Workers : f_thread[w] # None => f_in[w] # None


\* C31: ~thread() on a thread that is running, or whose OS thread has ended
\* with an exception kept in f_exception, sets f_stopping and goes on to the
\* join; when stop() has come back in the destructor the OS thread is
\* joined, the flags are false and f_exception is empty; the destructor then
\* detaches the runner and returns, whatever stop() threw.
C31_DeleteDrops ==
    /\ [][\A c \in Callers, t \in Workers :
            /\ (cr[c].pc = "idle" /\ cr'[c].op = "delete" /\ cr'[c].obj = t
                    /\ (f_running[t] \/ f_started[t])) =>
                    /\ cr'[c].pc = "join"
                    /\ f_stopping'[t]
            /\ (cr[c].pc = "ret" /\ cr[c].op = "delete" /\ cr[c].obj = t
                    /\ cr'[c] # cr[c]) =>
                    /\ cr'[c] = NoCall
                    /\ f_thread'[f_runner[t]] = None
                    /\ f_runner'[t] = None
                    /\ f_exception'[t] = NoException
         ]_vars
    /\ [](\A c \in Callers :
            (cr[c].pc = "ret" /\ cr[c].op = "delete") =>
                /\ unjoined(cr[c].obj) = {}
                /\ ~f_running[cr[c].obj]
                /\ ~f_started[cr[c].obj]
                /\ ~f_stopping[cr[c].obj]
                /\ f_exception[cr[c].obj] = NoException)

\* stop() has thrown the exception of run() into the destructor, after the
\* join
C31_Witness ==
    \E c \in Callers :
        /\ StopJoined(c)
        /\ cr[c].op = "delete"
        /\ cr[c].ret = "run"
        /\ f_runner[cr[c].obj] # None
        /\ tpc[cr[c].tid] = "none"

\* C32: when the wait of a pop_front(v, usecs) with usecs > 0 ends, by a
\* signal or by the timeout, the queue is looked at again: the call returns
\* true with the earliest ready item, removed from the queue, when there is
\* one, and it returns false (or, not timed out, waits again) only when no
\* item is ready.
C32_TimeoutRescans ==
    [][\A c \in Clients :
        (cl[c].pc = "pop" /\ cl[c].arg > 0 /\ cl'[c] # cl[c]) =>
            IF NothingReady
            THEN /\ cl'[c].pc = "ret" => ~cl'[c].ret
                 /\ f_queue' = f_queue
            ELSE /\ cl'[c].pc = "ret"
                 /\ cl'[c].ret
                 /\ FirstReady(cl'[c].out)
                 /\ Len(f_queue') = Len(f_queue) - 1
      ]_vars

\* C33: between the start() that launches an OS thread and the stop() that
\* joins it f_exception is written at most once: a value is stored only
\* into an empty slot, it is the exception of the first of enter(), run()
\* and leave() that threw in that OS thread (the one of leave() only when
\* enter() and run() did not throw), and the slot is empty when the OS
\* thread is launched.
C33_SlotWrittenOnce ==
    /\ [][\A t \in Workers :
            /\ (f_exception'[t] # f_exception[t]
                    /\ f_exception'[t] # NoException) =>
                    f_exception[t] = NoException
            /\ \A k \in Workers :
                    (tpc[k] = "none" /\ tpc'[k] = "first"
                        /\ system_thread'[k] = t) =>
                            f_exception'[t] = NoException
         ]_vars
    /\ [](\A k \in Workers :
            tpc[k] # "none" =>
                f_exception[system_thread[k]] = Thrown(events[k]))

\* run() and then leave() threw in one OS thread: the slot holds the
\* exception of run()
C33_Witness ==
    \E k \in Workers :
        /\ tpc[k] \in {"final", "exited"}
        /\ "run_throws" \in Range(events[k])
        /\ "leave_throws" \in Range(events[k])
        /\ f_exception[system_thread[k]] = "run"

\* C37: in every state of a thread object f_running implies f_started.
C37_RunningImpliesStarted ==
    \A t \in Workers : f_running[t] => f_started[t]

\* C38: in every state of a thread object f_stopping is true only if
\* f_running is true, and f_stopping is false when stop() has come back from
\* a join.
C38_StoppingWhileRunning ==
    /\ \A t \in Workers : f_stopping[t] => f_running[t]
    /\ \A c \in Callers : StopJoined(c) => ~f_stopping[cr[c].obj]

\* C40: a thread object runs one cycle after the other. start() called while
\* an OS thread of the object is not joined, still running or ended by the
\* return of run(), returns false and changes nothing; start() called once
\* stop() has joined launches a new OS thread (unless pthread_create()
\* fails) which begins with f_stopping false, an empty f_exception and no
\* call made yet, and start() then returns true; the new OS thread calls
\* enter(), run() and leave() as a whole run.
C40_RepeatedCycles ==
    /\ [][\A c \in Callers, t \in Workers :
            (cr[c].pc = "idle" /\ cr'[c].op = "start" /\ cr'[c].obj = t) =>
                IF unjoined(t) # {}
                THEN /\ cr'[c].pc = "ret"
                     /\ cr'[c].ret = "false"
                     /\ UNCHANGED <<flagVars, tpc, events, osVars>>
                ELSE \/ /\ cr'[c].pc = "ret"
                        /\ cr'[c].ret = "false"
                        /\ UNCHANGED <<tpc, events, osVars>>
                     \/ /\ cr'[c].pc = "start_wait"
                        /\ cr'[c].ready
                        /\ \E k \in Workers :
                                /\ tpc[k] = "none"
                                /\ tpc'[k] = "first"
                                /\ events'[k] = <<>>
                                /\ system_thread'[k] = t
                                /\ f_thread_id'[t] = k
                        /\ f_running'[t]
                        /\ ~f_stopping'[t]
                        /\ f_exception'[t] = NoException
         ]_vars
    /\ [](\A k \in Workers :
            tpc[k] \in {"final", "exited"} => called(events[k]) \in WholeRuns)
    /\ \A c \in Callers : (cr[c].pc = "start_wait") ~> StartReturned(c)

\* thread object 2 was started on OS thread 2, which stop() has joined, and
\* then on OS thread 1, whose runner has returned from a whole run; start()
\* has returned true
C40_Witness ==
    /\ system_thread[2] = 2
    /\ tpc[2] = "none"
    /\ called(events[2]) \in WholeRuns
    /\ system_thread[1] = 2
    /\ f_thread_id[2] = 1
    /\ tpc[1] = "exited"
    /\ events[1] = <<"enter", "run", "leave_normal">>
    /\ StartReturned(Owner)
    /\ cr[Owner].obj = 2

\* C39: in every state f_reference_count is the number of levels at which
\* the thread that owns the mutex holds it, 0 when no thread holds it;
\* also while a thread is suspended in wait() or timed_wait() on the mutex
\* and after an unlock() called by a thread that does not hold it.
C39_CountIsDepth == f_reference_count = m_level

\* C34: stop(callback) on a started thread calls the callback exactly once,
\* with the thread object as its argument, after f_stopping was set to true,
\* while the caller holds no guard on the mutex of the thread, and before
\* pthread_join() is entered.
C34_CallbackOnce ==
    /\ [][\A c \in Callers :
            /\ Len(lop'[c].log) > Len(lop[c].log) =>
                    /\ cr[c].pc = "join"
                    /\ cr'[c] = cr[c]
                    /\ lop[c].log = <<>>
                    /\ Len(lop'[c].log) = 1
                    /\ lop'[c].log[1].arg = cr[c].obj
                    /\ lop'[c].log[1].stopping
                    /\ "thread" \notin lop'[c].log[1].held
                    /\ f_stopping[cr[c].obj]
                    /\ "thread" \notin Holding(c)
            /\ (cr[c].pc = "join" /\ cr'[c].pc = "joining") =>
                    lop[c].cb # "given"
         ]_vars
    /\ [](\A c \in Callers :
            (StopJoined(c) /\ lop[c].cb # "null") =>
                /\ lop[c].cb = "called"
                /\ Len(lop[c].log) = 1)

\* stop(callback) has joined the OS thread and the callback was called
C34_Witness ==
    /\ StopJoined(Owner)
    /\ lop[Owner].op = "stop"
    /\ lop[Owner].cb = "called"
    /\ Len(lop[Owner].log) = 1
    /\ lop[Owner].log[1].stopping

\* C35: every step of start(), stop(), the query functions and the
\* trampoline of the child that reads or writes f_running, f_started,
\* f_stopping, f_tid or f_exception is taken while the thread taking it
\* holds the mutex of the thread object.
C35_FieldsUnderMutex ==
    [][\A p \in LockThreads :
            LET child == /\ p \in Workers
                         /\ tpc[p] \notin {"none", "exited"}
                         /\ tpc'[p] # tpc[p]
                caller == p \in Callers /\ cr'[p] # cr[p]
                written == \E t \in Workers :
                              \/ f_running'[t] # f_running[t]
                              \/ f_started'[t] # f_started[t]
                              \/ f_stopping'[t] # f_stopping[t]
                              \/ f_tid'[t] # f_tid[t]
                              \/ f_exception'[t] # f_exception[t]
            IN  ((child \/ caller) /\ written) => "thread" \in Holding(p)
      ]_vars

\* C36: no thread holds guards on two different mutexes (thread, runner,
\* fifo, item) at the same time.
C36_OneMutexAtATime ==
    \A p \in LockThreads : Cardinality(Holding(p)) <= 1
====
